---- MODULE Spec2Model ----
(***************************************************************************)
(* Quad-mesh topology of compas_pattern: the halfedge mesh, singularities, *)
(* polyedges, face strips, the strip edit operations and the boundary      *)
(* polyline extraction, as a state machine over one mesh and its strip     *)
(* table.                                                                  *)
(***************************************************************************)
EXTENDS Integers, Sequences, FiniteSets, TLC

VARIABLES
    mesh,    \* the mesh the caller holds: vertex, xyz, face, halfedge, key counters
    strip,   \* QuadMesh.strip: strip key -> list of edges
    ord,     \* iteration order of the int-keyed dicts and sets of this run
    ret,     \* what the last call did: op, arguments, val, none (None is returned), fault
    pre,     \* mesh and strip table as they were before the last call
    nops     \* number of edit operations called so far

vars == <<mesh, strip, ord, ret, pre, nops>>

\* Python's None (a halfedge without face, a missing result).
None == -1
\* An exception raised inside a call (KeyError, IndexError, ValueError, NameError).
Fault == -2

(***************************************************************************)
(* Bounds of the model.                                                    *)
(***************************************************************************)
\* Rectangular grids of up to MaxGrid x MaxGrid quads are initial meshes.
MaxGrid == 2
\* Edit operations called in one run.
MaxOps == 2

\* Vertex coordinates are integer pairs on a lattice of this pitch, so that
\* edge midpoints of midpoints stay integral.
Scale == 2^6

(***************************************************************************)
(* Sequences and iteration order.                                          *)
(***************************************************************************)
\* Position of key a before key b in the iteration of a dict or set of ints.
Before(a, b) == IF ord = "asc" THEN a < b ELSE a > b

\* The keys of S in iteration order: at place i the key with i - 1 keys
\* before it.
SortedSeq(S) ==
    [i \in 1..Cardinality(S) |->
        CHOOSE x \in S : Cardinality({y \in S : Before(y, x)}) = i - 1]

Range(s) == {s[i] : i \in 1..Len(s)}

Last(s) == s[Len(s)]

Reverse(s) == [i \in 1..Len(s) |-> s[Len(s) + 1 - i]]

\* list.index: position (from 1) of the first occurrence, 0 when absent.
IndexOf(s, x) ==
    IF x \in Range(s) THEN CHOOSE i \in 1..Len(s) : s[i] = x /\ \A j \in 1..(i - 1) : s[j] # x
    ELSE 0

\* list.remove: s without the first occurrence of x.
Remove(s, x) ==
    LET i == IndexOf(s, x)
    IN  IF i = 0 THEN s ELSE SubSeq(s, 1, i - 1) \o SubSeq(s, i + 1, Len(s))

\* compas.utilities.pairwise: consecutive pairs of a list.
pairwise(s) == [i \in 1..(Len(s) - 1) |-> <<s[i], s[i + 1]>>]

RECURSIVE SeqFilterNot(_, _)
\* s without its members of T, order kept.
SeqFilterNot(s, T) ==
    IF s = <<>> THEN <<>>
    ELSE (IF s[1] \in T THEN <<>> ELSE <<s[1]>>) \o SeqFilterNot(Tail(s), T)

(***************************************************************************)
(* utilities.lists: list_split.  Indices count from 0 and are given        *)
(* without duplicates, as a set.                                           *)
(***************************************************************************)
\* Lists handed to list_split have up to MaxLen items.
MaxLen == 4

\* closed list: if n - 1 in indices: remove it, and append 0 if 0 is not there
ClosedIndices(n, indices) ==
    IF n - 1 \in indices THEN (indices \ {n - 1}) \cup {0} ELSE indices

RECURSIVE SplitLoop(_, _, _, _, _)
\* for index, item in enumerate(l): append the item to the current list; at
\* an index to split that is not 0, and at the last index, the current list
\* is done and the next one starts with the item
SplitLoop(l, indices, index, current_list, split_lists) ==
    IF index = Len(l) THEN split_lists
    ELSE IF (index \in indices /\ index # 0) \/ index = Len(l) - 1
    THEN SplitLoop(l, indices, index + 1, <<l[index + 1]>>,
                   Append(split_lists, Append(current_list, l[index + 1])))
    ELSE SplitLoop(l, indices, index + 1, Append(current_list, l[index + 1]), split_lists)

\* start = split_lists.pop(0)[1:]; split_lists[-1] += start, an IndexError
\* when the list popped was the only one
WrapAround(split_lists) ==
    IF Len(split_lists) = 1 THEN [val |-> <<>>, fault |-> TRUE]
    ELSE [val |-> [Tail(split_lists) EXCEPT ![Len(split_lists) - 1] = @ \o Tail(split_lists[1])],
          fault |-> FALSE]

\* the end of list_split: indices are those after the closed list is dealt with
SplitClosed(l, closed, indices) ==
    IF closed /\ 0 \notin indices
    THEN WrapAround(SplitLoop(l, indices, 0, <<>>, <<>>))
    ELSE [val |-> SplitLoop(l, indices, 0, <<>>, <<>>), fault |-> FALSE]

\* list_split(l, indices): l[0] of an empty list is an IndexError
list_split(l, indices) ==
    IF l = <<>> THEN [val |-> <<>>, fault |-> TRUE]
    ELSE IF l[1] = Last(l) THEN SplitClosed(l, TRUE, ClosedIndices(Len(l), indices))
    ELSE SplitClosed(l, FALSE, indices)

(***************************************************************************)
(* The halfedge mesh kernel (compas Mesh).                                 *)
(***************************************************************************)
EmptyMesh ==
    [vertex |-> {}, xyz |-> <<>>, face |-> <<>>, halfedge |-> <<>>,
     max_int_key |-> -1, max_int_fkey |-> -1]

\* v in mesh.halfedge[u]
HasHalfedge(m, u, v) == <<u, v>> \in DOMAIN m.halfedge

\* mesh.halfedge[u][v] is a face (the entry exists and is not None)
HasFace(m, u, v) == HasHalfedge(m, u, v) /\ m.halfedge[<<u, v>>] # None

\* list(mesh.halfedge[u]): the neighbours in iteration order
vertex_neighbors(m, u) == SortedSeq({v \in m.vertex : HasHalfedge(m, u, v)})

vertex_degree(m, u) == Len(vertex_neighbors(m, u))

vertices(m) == SortedSeq(m.vertex)

faces(m) == SortedSeq(DOMAIN m.face)

number_of_vertices(m) == Cardinality(m.vertex)

number_of_faces(m) == Cardinality(DOMAIN m.face)

face_vertices(m, fkey) == m.face[fkey]

\* the halfedges of a face: the cyclic pairs of its vertex list
face_halfedges(m, fkey) ==
    LET f == m.face[fkey]
    IN  [i \in 1..Len(f) |-> <<f[i], f[(i % Len(f)) + 1]>>]

face_vertex_descendant(m, fkey, key) ==
    IF fkey \notin DOMAIN m.face THEN Fault
    ELSE LET f == m.face[fkey]
             i == IndexOf(f, key)
         IN  IF i = 0 THEN Fault
             ELSE IF Last(f) = key THEN f[1] ELSE f[i + 1]

face_vertex_ancestor(m, fkey, key) ==
    IF fkey \notin DOMAIN m.face THEN Fault
    ELSE LET f == m.face[fkey]
             i == IndexOf(f, key)
         IN  IF i = 0 THEN Fault
             ELSE IF i = 1 THEN Last(f) ELSE f[i - 1]

add_vertex(m, xyz) ==
    LET key == m.max_int_key + 1
    IN  [m EXCEPT !.vertex = @ \cup {key},
                  !.xyz = (key :> xyz) @@ @,
                  !.max_int_key = key]

RECURSIVE AddHalfedges(_, _, _)
\* for u, v in cycle: halfedge[u][v] = fkey; if u not in halfedge[v]: halfedge[v][u] = None
AddHalfedges(he, pairs, fkey) ==
    IF pairs = <<>> THEN he
    ELSE LET u == pairs[1][1]
             v == pairs[1][2]
             h1 == (<<u, v>> :> fkey) @@ he
             h2 == IF <<v, u>> \in DOMAIN h1 THEN h1 ELSE (<<v, u>> :> None) @@ h1
         IN  AddHalfedges(h2, Tail(pairs), fkey)

\* Mesh.add_face(vertices, fkey): a fresh key when fkey is None
add_face(m, vs, fkey) ==
    LET k == IF fkey = None THEN m.max_int_fkey + 1 ELSE fkey
        cyc == [i \in 1..Len(vs) |-> <<vs[i], vs[(i % Len(vs)) + 1]>>]
    IN  [m EXCEPT !.face = (k :> vs) @@ @,
                  !.halfedge = AddHalfedges(@, cyc, k),
                  !.max_int_fkey = IF k > @ THEN k ELSE @]

\* one step of the loop of delete_face: halfedge[u][v] = None, then both
\* entries go when halfedge[v][u] is None
DelHalfedge(h1, u, v) ==
    IF <<v, u>> \in DOMAIN h1 /\ h1[<<v, u>>] = None
    THEN [p \in DOMAIN h1 \ {<<u, v>>, <<v, u>>} |-> h1[p]]
    ELSE h1

\* halfedge[v][u] is read or deleted and is not in the table: KeyError
DelMissing(h1, u, v) == u = v \/ <<v, u>> \notin DOMAIN h1

RECURSIVE DelHalfedges(_, _)
\* for u, v in face_halfedges: halfedge[u][v] = None;
\* if halfedge[v][u] is None: del halfedge[u][v]; del halfedge[v][u]
\* The loop ends where it raises.
DelHalfedges(he, pairs) ==
    IF pairs = <<>> THEN he
    ELSE IF DelMissing(he, pairs[1][1], pairs[1][2])
    THEN DelHalfedge((pairs[1] :> None) @@ he, pairs[1][1], pairs[1][2])
    ELSE DelHalfedges(DelHalfedge((pairs[1] :> None) @@ he, pairs[1][1], pairs[1][2]),
                      Tail(pairs))

RECURSIVE DelRaises(_, _)
\* the loop of delete_face raises KeyError
DelRaises(he, pairs) ==
    IF pairs = <<>> THEN FALSE
    ELSE \/ DelMissing(he, pairs[1][1], pairs[1][2])
         \/ DelRaises(DelHalfedge((pairs[1] :> None) @@ he, pairs[1][1], pairs[1][2]),
                      Tail(pairs))

delete_face_raises(m, fkey) == DelRaises(m.halfedge, face_halfedges(m, fkey))

\* Mesh.delete_face(fkey): the face stays when the loop over its halfedges raises
delete_face(m, fkey) ==
    [m EXCEPT !.halfedge = DelHalfedges(@, face_halfedges(m, fkey)),
              !.face = IF delete_face_raises(m, fkey) THEN @
                       ELSE [k \in DOMAIN @ \ {fkey} |-> @[k]]]

is_vertex_on_boundary(m, key) ==
    \E nbr \in m.vertex : HasHalfedge(m, key, nbr) /\ m.halfedge[<<key, nbr>>] = None

\* needs both halfedge entries: a pair that is no edge is a KeyError
is_edge_on_boundary(m, u, v) ==
    m.halfedge[<<v, u>>] = None \/ m.halfedge[<<u, v>>] = None

\* all faces have 4 vertices
is_quadmesh(m) == \A fkey \in DOMAIN m.face : Len(m.face[fkey]) = 4

FacesAlong(m, key, nbrs) ==
    SeqFilterNot([i \in 1..Len(nbrs) |-> m.halfedge[<<key, nbrs[i]>>]], {None})

\* values of halfedge[key] that are faces, in iteration order of the neighbours
vertex_faces(m, key) == FacesAlong(m, key, vertex_neighbors(m, key))

vertices_on_boundary(m) ==
    {u \in m.vertex : \E v \in m.vertex :
        (HasHalfedge(m, u, v) /\ m.halfedge[<<u, v>>] = None)
        \/ (HasHalfedge(m, v, u) /\ m.halfedge[<<v, u>>] = None)}

RECURSIVE EdgesFrom(_, _)
\* Mesh.edges(): halfedges in iteration order, one direction per vertex pair
EdgesFrom(pairs, seen) ==
    IF pairs = <<>> THEN <<>>
    ELSE LET p == pairs[1]
             r == <<p[2], p[1]>>
         IN  IF p \in seen \/ r \in seen THEN EdgesFrom(Tail(pairs), seen)
             ELSE <<p>> \o EdgesFrom(Tail(pairs), seen \cup {p, r})

RECURSIVE Concat(_)
Concat(ss) == IF ss = <<>> THEN <<>> ELSE ss[1] \o Concat(Tail(ss))

\* every directed halfedge, outer key then inner key in iteration order
HalfedgesFrom(m, u, nb) == [j \in 1..Len(nb) |-> <<u, nb[j]>>]

HalfedgesOf(m, vs) ==
    Concat([i \in 1..Len(vs) |-> HalfedgesFrom(m, vs[i], vertex_neighbors(m, vs[i]))])

HalfedgeItems(m) == HalfedgesOf(m, vertices(m))

edges(m) == EdgesFrom(HalfedgeItems(m), {})

number_of_edges(m) == Len(edges(m))

\* the undirected edges of the mesh, as sets of endpoints
EdgeSet(m) == {{p[1], p[2]} : p \in DOMAIN m.halfedge}

RECURSIVE OrderedNbrs(_, _, _, _, _, _)
\* the loop of Mesh.vertex_neighbors(key, ordered=True); <<Fault>> when the
\* walk meets a halfedge without face (face_vertex_descendant of None raises).
\* The walk comes back to start within as many steps as there are neighbours;
\* count cuts a walk that does not (Mesh cuts it after 1000 steps).
OrderedNbrs(m, key, start, fkey, nbrs, count) ==
    IF count = 0 THEN nbrs
    ELSE IF fkey \notin DOMAIN m.face \/ key \notin Range(m.face[fkey]) THEN <<Fault>>
    ELSE LET nbr == face_vertex_descendant(m, fkey, key)
             f2 == m.halfedge[<<nbr, key>>]
         IN  IF nbr = start THEN nbrs
             ELSE IF f2 = None THEN Append(nbrs, nbr)
             ELSE OrderedNbrs(m, key, start, f2, Append(nbrs, nbr), count - 1)

OrderedFrom(m, key, temp, start) ==
    IF Len(temp) <= 1 THEN temp
    ELSE OrderedNbrs(m, key, start, m.halfedge[<<start, key>>], <<start>>, Len(temp))

FirstOf(out, temp) == IF out = <<>> THEN temp[1] ELSE out[1]

OrderedOf(m, key, temp) ==
    OrderedFrom(m, key, temp,
        FirstOf(SeqFilterNot(temp, {v \in Range(temp) : m.halfedge[<<key, v>>] # None}), temp))

vertex_neighbors_ordered(m, key) == OrderedOf(m, key, vertex_neighbors(m, key))

RECURSIVE AddFaces(_, _)
AddFaces(m, fs) ==
    IF fs = <<>> THEN m ELSE AddFaces(add_face(m, fs[1], None), Tail(fs))

RECURSIVE AddVertices(_, _)
AddVertices(m, ps) ==
    IF ps = <<>> THEN m ELSE AddVertices(add_vertex(m, ps[1]), Tail(ps))

\* Mesh.from_vertices_and_faces: vertices keyed 0.., faces keyed 0..
from_vertices_and_faces(ps, fs) == AddFaces(AddVertices(EmptyMesh, ps), fs)

\* Mesh.key_index: the place of each vertex in vertices(), from 0
key_index(m) == [key \in m.vertex |-> IndexOf(vertices(m), key) - 1]

\* to_vertices_and_faces with the keys of the vertices left in the faces
to_vertices_and_faces_keys(m) ==
    [vertices |-> [i \in 1..Len(vertices(m)) |-> m.xyz[vertices(m)[i]]],
     faces |-> [j \in 1..Len(faces(m)) |-> m.face[faces(m)[j]]],
     fault |-> FALSE]

\* to_vertices_and_faces(keep_keys=False): the coordinates in the order of
\* vertices(), the faces in the order of faces() with key_index[key] for
\* each key; key_index[key] is a KeyError for a key that is not a vertex
to_vertices_and_faces(m) ==
    [vertices |-> [i \in 1..Len(vertices(m)) |-> m.xyz[vertices(m)[i]]],
     faces |-> [j \in 1..Len(faces(m)) |->
                  [i \in 1..Len(m.face[faces(m)[j]]) |->
                      IF m.face[faces(m)[j]][i] \in m.vertex
                      THEN key_index(m)[m.face[faces(m)[j]][i]] ELSE Fault]],
     fault |-> \E fkey \in DOMAIN m.face : Range(m.face[fkey]) \ m.vertex # {}]

(***************************************************************************)
(* Initial meshes, built with from_vertices_and_faces.                     *)
(***************************************************************************)
\* a x b quads on (a+1) x (b+1) vertices, faces counter-clockwise
Grid(a, b) ==
    LET v(i, j) == i + j * (a + 1)
        ps == [k \in 1..((a + 1) * (b + 1)) |->
                  <<((k - 1) % (a + 1)) * Scale, ((k - 1) \div (a + 1)) * Scale>>]
        fs == [k \in 1..(a * b) |->
                  LET i == (k - 1) % a
                      j == (k - 1) \div a
                  IN  <<v(i, j), v(i + 1, j), v(i + 1, j + 1), v(i, j + 1)>>]
    IN  from_vertices_and_faces(ps, fs)

\* three quads around an interior vertex of valence 3
Tri3 ==
    from_vertices_and_faces(
        <<<<0, 0>>, <<2 * Scale, 0>>, <<2 * Scale, 2 * Scale>>, <<0, 2 * Scale>>,
          <<-2 * Scale, 2 * Scale>>, <<-2 * Scale, -Scale>>, <<0, -2 * Scale>>>>,
        <<<<0, 1, 2, 3>>, <<0, 3, 4, 5>>, <<0, 5, 6, 1>>>>)

\* a ring of 3 sectors, w quads wide: vertex r * 3 + s on circle r, sector s
Ring(w) ==
    LET v(r, s) == r * 3 + (s % 3)
        dir == <<<<Scale, 0>>, <<-Scale, Scale>>, <<-Scale, -Scale>>>>
        ps == [k \in 1..(3 * (w + 1)) |->
                  LET r == (k - 1) \div 3
                      s == (k - 1) % 3
                  IN  <<(r + 1) * dir[s + 1][1], (r + 1) * dir[s + 1][2]>>]
        fs == [k \in 1..(3 * w) |->
                  LET r == (k - 1) \div 3
                      s == (k - 1) % 3
                  IN  <<v(r, s), v(r + 1, s), v(r + 1, s + 1), v(r, s + 1)>>]
    IN  from_vertices_and_faces(ps, fs)

\* the 2 x 2 grid without its last face and last vertex: vertex 4 is on the
\* boundary with 4 neighbours
LShape ==
    LET g == Grid(2, 2)
    IN  from_vertices_and_faces([k \in 1..8 |-> g.xyz[k - 1]], [k \in 1..3 |-> g.face[k - 1]])

\* two quads that share one vertex only (non-manifold at vertex 2)
Bowtie ==
    from_vertices_and_faces(
        <<<<0, 0>>, <<Scale, 0>>, <<Scale, Scale>>, <<0, Scale>>,
          <<2 * Scale, Scale>>, <<2 * Scale, 2 * Scale>>, <<Scale, 2 * Scale>>>>,
        <<<<0, 1, 2, 3>>, <<2, 4, 5, 6>>>>)

\* a quad and a triangle: not a quad mesh
TriQuad ==
    from_vertices_and_faces(
        <<<<0, 0>>, <<Scale, 0>>, <<Scale, Scale>>, <<0, Scale>>, <<2 * Scale, 0>>>>,
        <<<<0, 1, 2, 3>>, <<1, 4, 2>>>>)

\* a row of three quads, the middle one last in the face list
Row3 ==
    from_vertices_and_faces(
        <<<<0, 0>>, <<Scale, 0>>, <<2 * Scale, 0>>, <<3 * Scale, 0>>,
          <<0, Scale>>, <<Scale, Scale>>, <<2 * Scale, Scale>>, <<3 * Scale, Scale>>>>,
        <<<<0, 1, 5, 4>>, <<2, 3, 7, 6>>, <<1, 2, 6, 5>>>>)

Grids == {Grid(a, b) : a \in 1..MaxGrid, b \in 1..MaxGrid}

Library == Grids \cup {Tri3, Ring(1), Ring(2), LShape, Bowtie, TriQuad, Row3}

\* pseudo quad meshes: triangles given as quads with the last vertex repeated.
\* One triangle [a, b, c, c]
Pseudo1 ==
    from_vertices_and_faces(
        <<<<0, 0>>, <<Scale, 0>>, <<0, Scale>>>>,
        <<<<0, 1, 2, 2>>>>)

\* two triangles side by side, both with the vertex 2 repeated
PseudoFan ==
    from_vertices_and_faces(
        <<<<0, 0>>, <<Scale, 0>>, <<Scale, Scale>>, <<2 * Scale, 0>>>>,
        <<<<0, 1, 2, 2>>, <<1, 3, 2, 2>>>>)

\* a quad with a triangle on its edge (1, 2)
PseudoCap ==
    from_vertices_and_faces(
        <<<<0, 0>>, <<Scale, 0>>, <<Scale, Scale>>, <<0, Scale>>, <<2 * Scale, 0>>>>,
        <<<<0, 1, 2, 3>>, <<1, 4, 2, 2>>>>)

\* a row of two quads with a triangle at each end: the triangles repeat the
\* vertices 6 and 5
PseudoRow ==
    from_vertices_and_faces(
        <<<<0, 0>>, <<Scale, 0>>, <<2 * Scale, 0>>, <<0, Scale>>, <<Scale, Scale>>,
          <<2 * Scale, Scale>>, <<-Scale, 0>>, <<3 * Scale, 0>>>>,
        <<<<0, 1, 4, 3>>, <<1, 2, 5, 4>>, <<3, 0, 6, 6>>, <<2, 7, 5, 5>>>>)

PseudoLibrary == {Pseudo1, PseudoFan, PseudoCap, PseudoRow}

(***************************************************************************)
(* QuadMesh: singularities and polyedges.                                  *)
(***************************************************************************)
FacedDirection(m, es) ==
    [i \in 1..Len(es) |->
        IF HasFace(m, es[i][1], es[i][2]) THEN es[i] ELSE <<es[i][2], es[i][1]>>]

not_none_edges(m) == FacedDirection(m, edges(m))

\* face_opposite_edge that steps over one vertex only: the next edge of the face
face_opposite_edge_next(m, u, v) ==
    LET fkey == m.halfedge[<<u, v>>]
    IN  <<v, face_vertex_descendant(m, fkey, v)>>

face_opposite_edge(m, u, v) ==
    LET fkey == m.halfedge[<<u, v>>]
        w == face_vertex_descendant(m, fkey, v)
        x == face_vertex_descendant(m, fkey, w)
    IN  <<w, x>>

\* is_vertex_singular that takes 4 as the regular valence everywhere
is_vertex_singular_nobdry(m, vkey) == vertex_degree(m, vkey) # 4

is_vertex_singular(m, vkey) ==
    IF (is_vertex_on_boundary(m, vkey) /\ vertex_degree(m, vkey) # 3)
       \/ (~is_vertex_on_boundary(m, vkey) /\ vertex_degree(m, vkey) # 4)
    THEN TRUE
    ELSE FALSE

singularities(m) == {vkey \in m.vertex : is_vertex_singular(m, vkey)}

\* a vertex, None, or Fault (an empty candidate list, u missing from the ordered
\* neighbours)
FirstOrFault(c) == IF c = <<>> THEN Fault ELSE c[1]

\* nbrs[nbrs.index(u) - 2], a negative index counting from the end
TwoBefore(nbrs, i) ==
    IF i = 0 THEN Fault
    ELSE IF i - 3 >= 0 THEN nbrs[i - 2]
    ELSE IF i - 3 + Len(nbrs) >= 0 THEN nbrs[i - 2 + Len(nbrs)]
    ELSE Fault

OppositeIn(nbrs, u) == TwoBefore(nbrs, IndexOf(nbrs, u))

vertex_opposite_vertex(m, u, v) ==
    IF is_vertex_singular(m, v) THEN None
    ELSE IF is_vertex_on_boundary(m, v) THEN
        IF ~is_vertex_on_boundary(m, u) THEN None
        ELSE FirstOrFault(SeqFilterNot(vertex_neighbors(m, v),
                 {nbr \in m.vertex : nbr = u \/ ~is_vertex_on_boundary(m, nbr)}))
    ELSE OppositeIn(vertex_neighbors_ordered(m, v), u)

RECURSIVE PolyedgeLoop(_, _, _)

\* the end of one iteration once the walk has turned: r is the reversed list
PolyedgeBack(m, r, it, w2) ==
    IF w2 = Fault THEN [val |-> r, iters |-> it + 1, fault |-> TRUE]
    ELSE IF w2 = None THEN [val |-> r, iters |-> it + 1, fault |-> FALSE]
    ELSE PolyedgeLoop(m, Append(r, w2), it + 1)

\* the turn that ends the walk where the first end was found
PolyedgeTurn_stop(m, r, it) == [val |-> r, iters |-> it + 1, fault |-> FALSE]

PolyedgeTurn(m, r, it) ==
    PolyedgeBack(m, r, it, vertex_opposite_vertex(m, r[Len(r) - 1], Last(r)))

\* one iteration: w is the vertex opposite to the last edge
PolyedgeStep(m, pe, it, w) ==
    IF w = Fault THEN [val |-> pe, iters |-> it + 1, fault |-> TRUE]
    ELSE IF w # None THEN PolyedgeLoop(m, Append(pe, w), it + 1)
    ELSE PolyedgeTurn(m, Reverse(pe), it)

\* the while loop of polyedge: it counts the iterations entered
PolyedgeLoop(m, pe, it) ==
    IF ~(Len(pe) <= number_of_vertices(m)) THEN [val |-> pe, iters |-> it, fault |-> FALSE]
    ELSE IF pe[1] = Last(pe) THEN [val |-> pe, iters |-> it + 1, fault |-> FALSE]
    ELSE PolyedgeStep(m, pe, it, vertex_opposite_vertex(m, pe[Len(pe) - 1], Last(pe)))

polyedge(m, u0, v0) == PolyedgeLoop(m, <<u0, v0>>, 0)

RECURSIVE RemoveEdges_dir(_, _)
\* RemoveEdges that forgets the reversed direction (v, u)
RemoveEdges_dir(es, ps) ==
    IF ps = <<>> THEN es
    ELSE RemoveEdges_dir(IF ps[1] \in Range(es) THEN Remove(es, ps[1]) ELSE es, Tail(ps))

RECURSIVE RemoveEdges(_, _)
\* for u, v in ...: remove (u, v) from edges if there, else (v, u) if there
RemoveEdges(es, ps) ==
    IF ps = <<>> THEN es
    ELSE LET p == ps[1]
             r == <<p[2], p[1]>>
         IN  RemoveEdges(IF p \in Range(es) THEN Remove(es, p)
                         ELSE IF r \in Range(es) THEN Remove(es, r)
                         ELSE es, Tail(ps))

RECURSIVE PolyedgesLoop(_, _, _)

\* pe is the polyedge traced from the popped edge
PolyedgesNext(m, rest, acc, pe) ==
    IF pe.fault THEN [val |-> acc, fault |-> TRUE]
    ELSE PolyedgesLoop(m, RemoveEdges(rest, pairwise(pe.val)), Append(acc, pe.val))

\* the while loop of polyedges: pop the last pending edge, trace, remove
PolyedgesLoop(m, es, acc) ==
    IF Len(es) = 0 THEN [val |-> acc, fault |-> FALSE]
    ELSE PolyedgesNext(m, SubSeq(es, 1, Len(es) - 1), acc, polyedge(m, Last(es)[1], Last(es)[2]))

polyedges(m) == PolyedgesLoop(m, edges(m), <<>>)

\* the test of singularity_polyedges on a polyedge: a singularity at one end
\* or the first edge on the boundary
IsRetained(m, pe) ==
    \/ is_vertex_singular(m, pe[1])
    \/ is_vertex_singular(m, Last(pe))
    \/ is_edge_on_boundary(m, pe[1], pe[2])

\* the polyedges connected to singularities or along the boundary
Retained(m, pes) == SeqFilterNot(pes, {pe \in Range(pes) : ~IsRetained(m, pe)})

\* split_vertices: the vertices on more than one of the polyedges
SplitVertices(m, pes) ==
    {vkey \in m.vertex : Cardinality({k \in 1..Len(pes) : vkey \in Range(pes[k])}) > 1}

\* [polyedge.index(vkey) for vkey in split_vertices if vkey in polyedge]
SplitIndices(pe, split_vertices) ==
    {IndexOf(pe, vkey) - 1 : vkey \in split_vertices \cap Range(pe)}

RECURSIVE SplitPolyedges(_, _, _)

\* r is list_split of the first of pes
SplitPolyedgesNext(pes, split_vertices, acc, r) ==
    IF r.fault THEN [val |-> acc, fault |-> TRUE]
    ELSE SplitPolyedges(Tail(pes), split_vertices, acc \o r.val)

\* the sublists of every polyedge, one polyedge after the other
SplitPolyedges(pes, split_vertices, acc) ==
    IF pes = <<>> THEN [val |-> acc, fault |-> FALSE]
    ELSE SplitPolyedgesNext(pes, split_vertices, acc,
                            list_split(pes[1], SplitIndices(pes[1], split_vertices)))

\* kept: the polyedges retained before the split
SplitRetained(m, kept) ==
    [val |-> SplitPolyedges(kept, SplitVertices(m, kept), <<>>).val,
     fault |-> SplitPolyedges(kept, SplitVertices(m, kept), <<>>).fault,
     kept |-> kept]

singularity_polyedges(m) ==
    IF polyedges(m).fault THEN [val |-> <<>>, fault |-> TRUE, kept |-> <<>>]
    ELSE SplitRetained(m, Retained(m, polyedges(m).val))

(***************************************************************************)
(* QuadMesh: strips.                                                       *)
(***************************************************************************)
FlipReversed(es) == [i \in 1..Len(es) |-> <<es[Len(es) + 1 - i][2], es[Len(es) + 1 - i][1]>>]

RECURSIVE CollectStripLoop(_, _, _, _)

\* the turn that ends the walk at the first boundary edge it finds
CollectStripTurn_stop(m, es1, es2, count, steps) ==
    IF HasFace(m, Last(es1)[1], Last(es1)[2])
    THEN CollectStripLoop(m, es1, count - 1, steps + 1)
    ELSE [val |-> es2, steps |-> steps + 1, fault |-> FALSE]

\* es1 is the list with the opposite edge appended, es2 that list reversed
\* with every edge flipped
CollectStripTurn(m, es1, es2, count, steps) ==
    IF HasFace(m, Last(es1)[1], Last(es1)[2])
    THEN CollectStripLoop(m, es1, count - 1, steps + 1)
    ELSE IF ~HasFace(m, Last(es2)[1], Last(es2)[2])
    THEN [val |-> es2, steps |-> steps + 1, fault |-> FALSE]
    ELSE CollectStripLoop(m, es2, count - 1, steps + 1)

\* one iteration: wx is the edge opposite to the last edge
CollectStripStep(m, es, count, steps, wx) ==
    IF <<wx[2], wx[1]>> = es[1] THEN [val |-> es, steps |-> steps + 1, fault |-> FALSE]
    ELSE CollectStripTurn(m, Append(es, <<wx[2], wx[1]>>),
                          FlipReversed(Append(es, <<wx[2], wx[1]>>)), count, steps)

\* the while loop of collect_strip: count is the remaining budget
CollectStripLoop(m, es, count, steps) ==
    IF ~(count > 0) THEN [val |-> es, steps |-> steps, fault |-> FALSE]
    ELSE IF ~HasFace(m, Last(es)[1], Last(es)[2])
    THEN [val |-> es, steps |-> steps + 1, fault |-> TRUE]
    ELSE CollectStripStep(m, es, count, steps, face_opposite_edge(m, Last(es)[1], Last(es)[2]))

collect_strip(m, u0, v0) ==
    IF ~HasHalfedge(m, u0, v0) THEN [val |-> <<>>, steps |-> 0, fault |-> TRUE]
    ELSE CollectStripLoop(m, <<IF m.halfedge[<<u0, v0>>] = None THEN <<v0, u0>> ELSE <<u0, v0>>>>,
                          number_of_edges(m), 0)

RECURSIVE CollectStripsLoop(_, _, _, _)

\* se is the strip collected from the popped edge
CollectStripsNext(m, rest, table, skey, se) ==
    IF se.fault THEN [table |-> table, val |-> skey, fault |-> TRUE]
    ELSE CollectStripsLoop(m, RemoveEdges(rest, se.val), (skey :> se.val) @@ table, skey)

\* the while loop of collect_strips: strip is the last key used
CollectStripsLoop(m, es, table, skey) ==
    IF Len(es) = 0 THEN [table |-> table, val |-> skey, fault |-> FALSE]
    ELSE CollectStripsNext(m, SubSeq(es, 1, Len(es) - 1), table, skey + 1,
                           collect_strip(m, Last(es)[1], Last(es)[2]))

\* QuadMesh.number_of_strips(): len(list(self.strips())) on the strip table
number_of_strips(table) == Cardinality(DOMAIN table)

collect_strips(m) == CollectStripsLoop(m, not_none_edges(m), <<>>, -1)

\* QuadMesh.strip_edges(skey)
strip_edges(table, skey) == table[skey]

\* the strips with the edge in their list, in one direction or the other
StripsOf(table, edge) ==
    {skey \in DOMAIN table :
        edge \in Range(table[skey]) \/ <<edge[2], edge[1]>> \in Range(table[skey])}

\* edge_strip that looks for the edge in the direction given only
edge_strip_dir(table, edge) ==
    IF {skey \in DOMAIN table : edge \in Range(table[skey])} = {} THEN None
    ELSE SortedSeq({skey \in DOMAIN table : edge \in Range(table[skey])})[1]

\* QuadMesh.edge_strip(edge): the first strip in the iteration of the table
\* with the edge, None when the loop ends without one
edge_strip(table, edge) ==
    IF StripsOf(table, edge) = {} THEN None ELSE SortedSeq(StripsOf(table, edge))[1]

\* QuadMesh.strip_faces(skey): halfedge[u][v] of a pair that is no halfedge
\* is a KeyError
strip_faces(m, table, skey) ==
    IF \E e \in Range(strip_edges(table, skey)) : ~HasHalfedge(m, e[1], e[2])
    THEN [val |-> <<>>, fault |-> TRUE]
    ELSE [val |-> SeqFilterNot([i \in 1..Len(strip_edges(table, skey)) |->
                                   m.halfedge[strip_edges(table, skey)[i]]], {None}),
          fault |-> FALSE]

\* QuadMesh.face_strips(fkey): the strips of the first two halfedges of the face
face_strips(m, table, fkey) ==
    [i \in 1..(IF Len(m.face[fkey]) < 2 THEN Len(m.face[fkey]) ELSE 2) |->
        edge_strip(table, face_halfedges(m, fkey)[i])]

\* an edge of a strip with the vertex old_vkey replaced by new_vkey
SubstituteInEdge(edge, old_vkey, new_vkey) ==
    [i \in 1..2 |-> IF edge[i] = old_vkey THEN new_vkey ELSE edge[i]]

\* QuadMesh.substitute_vertex_in_strips(old_vkey, new_vkey, strips): the
\* strips named are written again, the others stay; a key that is not in the
\* table is a KeyError before anything is written
substitute_vertex_in_strips(table, old_vkey, new_vkey, strips) ==
    IF ~(strips \subseteq DOMAIN table) THEN [table |-> table, fault |-> TRUE]
    ELSE [table |-> [skey \in DOMAIN table |->
                        IF skey \in strips
                        THEN [i \in 1..Len(table[skey]) |->
                                 SubstituteInEdge(table[skey][i], old_vkey, new_vkey)]
                        ELSE table[skey]],
          fault |-> FALSE]

\* the edges of the table that are no halfedge of the mesh
StaleEdges(m, table) ==
    {e \in UNION {Range(table[skey]) : skey \in DOMAIN table} : e \notin DOMAIN m.halfedge}

\* the edges of a strip that are not on the face fkey
OffFace(m, es, fkey) ==
    LET keep == {i \in 1..Len(es) : m.halfedge[es[i]] # fkey}
        nth(k) == CHOOSE i \in keep : Cardinality({j \in keep : j < i}) = k - 1
    IN  [k \in 1..Cardinality(keep) |-> es[nth(k)]]

\* QuadMesh.delete_face_in_strips(fkey): self.halfedge[u][v] of an edge the
\* mesh does not have is a KeyError and the table is not assigned
delete_face_in_strips(m, table, fkey) ==
    IF StaleEdges(m, table) # {} THEN [table |-> table, fault |-> TRUE]
    ELSE [table |-> [skey \in DOMAIN table |-> OffFace(m, table[skey], fkey)],
          fault |-> FALSE]

(***************************************************************************)
(* Edge groups (dual_edge_groups, imported by the edit operations under    *)
(* its former name dual_edge_polylines).                                   *)
(***************************************************************************)
\* edge_groups[(u, v)] = edge_groups[(v, u)] = group
SetGroup(g, u, v, group) == (<<v, u>> :> group) @@ (<<u, v>> :> group) @@ g

\* the first if / elif of the loop body: a collapsed quad; st is [g, max]
GroupDegenerate(st, u, v, w, x) ==
    IF u = v
    THEN (IF <<w, x>> \notin DOMAIN st.g
          THEN [g |-> SetGroup(st.g, w, x, st.max + 1), max |-> st.max + 1]
          ELSE st)
    ELSE IF w = x
    THEN (IF <<u, v>> \notin DOMAIN st.g
          THEN [g |-> SetGroup(st.g, u, v, st.max + 1), max |-> st.max + 1]
          ELSE st)
    ELSE st

\* the chain with a merge that moves the edge (w, x) alone to the group of
\* (u, v) and leaves the rest of its old group behind
GroupOpposite_one(s1, u, v, w, x) ==
    IF <<u, v>> \in DOMAIN s1.g /\ <<w, x>> \in DOMAIN s1.g
    THEN [g |-> SetGroup(s1.g, w, x, s1.g[<<u, v>>]), max |-> s1.max]
    ELSE IF <<u, v>> \notin DOMAIN s1.g /\ <<w, x>> \in DOMAIN s1.g
    THEN [g |-> SetGroup(s1.g, u, v, s1.g[<<w, x>>]), max |-> s1.max]
    ELSE IF <<u, v>> \in DOMAIN s1.g /\ <<w, x>> \notin DOMAIN s1.g
    THEN [g |-> SetGroup(s1.g, w, x, s1.g[<<u, v>>]), max |-> s1.max]
    ELSE [g |-> SetGroup(SetGroup(s1.g, u, v, s1.max + 1), w, x, s1.max + 1),
          max |-> s1.max + 1]

\* the second if / elif chain of the loop body
GroupOpposite(s1, u, v, w, x) ==
    IF <<u, v>> \in DOMAIN s1.g /\ <<w, x>> \in DOMAIN s1.g
    THEN [g |-> [e \in DOMAIN s1.g |->
                    IF s1.g[e] = s1.g[<<w, x>>] THEN s1.g[<<u, v>>] ELSE s1.g[e]],
          max |-> s1.max]
    ELSE IF <<u, v>> \notin DOMAIN s1.g /\ <<w, x>> \in DOMAIN s1.g
    THEN [g |-> SetGroup(s1.g, u, v, s1.g[<<w, x>>]), max |-> s1.max]
    ELSE IF <<u, v>> \in DOMAIN s1.g /\ <<w, x>> \notin DOMAIN s1.g
    THEN [g |-> SetGroup(s1.g, w, x, s1.g[<<u, v>>]), max |-> s1.max]
    ELSE [g |-> SetGroup(SetGroup(s1.g, u, v, s1.max + 1), w, x, s1.max + 1),
          max |-> s1.max + 1]

\* one pass of the loop body for (u, v, w, x)
GroupPair(st, u, v, w, x) == GroupOpposite(GroupDegenerate(st, u, v, w, x), u, v, w, x)

\* for u, v, w, x in [[a, b, c, d], [b, c, d, a]]
GroupFace(st, f) == GroupPair(GroupPair(st, f[1], f[2], f[3], f[4]), f[2], f[3], f[4], f[1])

RECURSIVE GroupFaces(_, _, _)
GroupFaces(m, fs, st) ==
    IF fs = <<>> THEN st
    ELSE GroupFaces(m, Tail(fs), GroupFace(st, m.face[fs[1]]))

\* edge_groups, max_group of a quad mesh
dual_edge_groups(m) == GroupFaces(m, faces(m), [g |-> <<>>, max |-> 0])

(***************************************************************************)
(* face_strip_collapse.                                                    *)
(***************************************************************************)
\* iteration order of a dict keyed by vertex pairs
BeforePair(p, q) == Before(p[1], q[1]) \/ (p[1] = q[1] /\ Before(p[2], q[2]))

SortedPairs(S) ==
    [i \in 1..Cardinality(S) |->
        CHOOSE x \in S : Cardinality({y \in S : BeforePair(y, x)}) = i - 1]

\* [edge for edge, group in edge_groups.items() if group == group_number]
GroupOf(g, u, v) == SortedPairs({e \in DOMAIN g : g[e] = g[<<u, v>>]})

edges_to_collapse(m, u, v) == GroupOf(dual_edge_groups(m).g, u, v)

RECURSIVE DeleteStripFaces(_, _)

DeleteStripFace(st, es, fkey) ==
    IF fkey = None THEN DeleteStripFaces(st, Tail(es))
    ELSE IF fkey \notin DOMAIN st.m.face THEN [st EXCEPT !.fault = TRUE]
    ELSE DeleteStripFaces([m |-> delete_face(st.m, fkey),
                           fault |-> delete_face_raises(st.m, fkey)], Tail(es))

\* for u, v in edges_to_collapse: delete the face on (u, v) if there is one;
\* st is [m, fault]
DeleteStripFaces(st, es) ==
    IF es = <<>> \/ st.fault THEN st
    ELSE DeleteStripFace(st, es,
            IF HasHalfedge(st.m, es[1][1], es[1][2]) THEN st.m.halfedge[es[1]] ELSE None)

edge_midpoint(m, u, v) ==
    <<(m.xyz[u][1] + m.xyz[v][1]) \div 2, (m.xyz[u][2] + m.xyz[v][2]) \div 2>>

\* face_vertices[idx] = w for idx = face_vertices.index(vkey)
PutAt(fv, vkey, w) == [fv EXCEPT ![IndexOf(fv, vkey)] = w]

RECURSIVE RelinkFaces(_, _, _, _)

\* the relinking with the face deleted and not added again
RelinkFaces_drop(st, fs, vkey, w) ==
    IF fs = <<>> \/ st.fault THEN st
    ELSE IF fs[1] \notin DOMAIN st.m.face \/ vkey \notin Range(st.m.face[fs[1]])
    THEN [st EXCEPT !.fault = TRUE]
    ELSE IF delete_face_raises(st.m, fs[1])
    THEN [st EXCEPT !.m = delete_face(@, fs[1]), !.fault = TRUE]
    ELSE RelinkFaces([st EXCEPT !.m = delete_face(@, fs[1])], Tail(fs), vkey, w)

\* for fkey in vertex_faces(vkey): put w at the place of vkey, delete the
\* face and add it again under the same key
RelinkFaces(st, fs, vkey, w) ==
    IF fs = <<>> \/ st.fault THEN st
    ELSE IF fs[1] \notin DOMAIN st.m.face \/ vkey \notin Range(st.m.face[fs[1]])
    THEN [st EXCEPT !.fault = TRUE]
    ELSE IF delete_face_raises(st.m, fs[1])
    THEN [st EXCEPT !.m = delete_face(@, fs[1]), !.fault = TRUE]
    ELSE RelinkFaces([st EXCEPT !.m = add_face(delete_face(@, fs[1]),
                                               PutAt(st.m.face[fs[1]], vkey, w), fs[1])],
                     Tail(fs), vkey, w)

\* the coordinate of the merged vertex of (u, v), bv the boundary vertices
MergedXYZ(m, u, v, bv) ==
    IF u \in bv /\ v \notin bv THEN m.xyz[v]
    ELSE IF v \in bv /\ u \notin bv THEN m.xyz[u]
    ELSE edge_midpoint(m, u, v)

\* for vkey in [u, v]: the faces of v are looked up after those of u are relinked
RelinkSecond(s1, v, w) ==
    IF s1.fault THEN s1 ELSE RelinkFaces(s1, vertex_faces(s1.m, v), v, w)

\* m1 is the mesh with the merged vertex added
MergeEdge(st, m1, u, v) ==
    RelinkSecond(RelinkFaces([st EXCEPT !.m = m1], vertex_faces(m1, u), u, m1.max_int_key),
                 v, m1.max_int_key)

RECURSIVE MergeCollapsed(_, _, _)
\* for u, v in edges_to_collapse: add the merged vertex w, relink the faces
\* of u, then those of v
MergeCollapsed(st, es, bv) ==
    IF es = <<>> \/ st.fault THEN st
    ELSE MergeCollapsed(
            MergeEdge(st, add_vertex(st.m, MergedXYZ(st.m, es[1][1], es[1][2], bv)),
                      es[1][1], es[1][2]),
            Tail(es), bv)

RECURSIVE DistinctSeq(_, _)
\* the members of s, first occurrences only
DistinctSeq(s, seen) ==
    IF s = <<>> THEN <<>>
    ELSE IF s[1] \in seen THEN DistinctSeq(Tail(s), seen)
    ELSE <<s[1]>> \o DistinctSeq(Tail(s), seen \cup {s[1]})

\* the faces fs of m with every vertex replaced by the place (from 0) of its
\* position in ps
WeldFaces(m, ps, fs) ==
    [i \in 1..Len(fs) |->
        [j \in 1..Len(m.face[fs[i]]) |-> IndexOf(ps, m.xyz[m.face[fs[i]][j]]) - 1]]

\* vs: the vertices that some face refers to
WeldVertices(m, vs) ==
    [vertices |-> DistinctSeq([i \in 1..Len(vs) |-> m.xyz[vs[i]]], {}),
     faces |-> WeldFaces(m, DistinctSeq([i \in 1..Len(vs) |-> m.xyz[vs[i]]], {}), faces(m))]

\* weld_mesh: one vertex per position, faces remapped to the positions in
\* the new vertex list (from 0), vertices of no face dropped
weld_mesh(m) ==
    WeldVertices(m, SeqFilterNot(vertices(m),
                     m.vertex \ UNION {Range(m.face[fkey]) : fkey \in DOMAIN m.face}))

\* the vertices with a neighbour
Connected(m) == {v \in m.vertex : \E w \in m.vertex : HasHalfedge(m, v, w)}

\* Mesh.cull_vertices: delete the vertices without neighbours
cull_vertices(m) ==
    [m EXCEPT !.vertex = Connected(m), !.xyz = [v \in Connected(m) |-> @[v]]]

FromWelded(wm) == from_vertices_and_faces(wm.vertices, wm.faces)

\* the local mesh of face_strip_collapse after "clean mesh"
Rebuild(m) == cull_vertices(FromWelded(weld_mesh(m)))

\* [m: the caller's mesh afterwards, val: what is returned, fault,
\*  local: the mesh bound to the local name at the end]
CollapseResult(s2) ==
    IF s2.fault THEN [m |-> s2.m, val |-> None, fault |-> TRUE, local |-> s2.m]
    ELSE [m |-> s2.m, val |-> 0, fault |-> FALSE, local |-> Rebuild(s2.m)]

\* boundary_vertices are those of the mesh without the faces of the strip
CollapseMerge(s1, es) ==
    CollapseResult(MergeCollapsed(s1, es, vertices_on_boundary(s1.m)))

CollapseEdges(m, es) == CollapseMerge(DeleteStripFaces([m |-> m, fault |-> FALSE], es), es)

\* group_number = edge_groups[(u, v)] is a KeyError for a pair without group
CollapseGroup(m, g, u, v) ==
    IF <<u, v>> \notin DOMAIN g THEN [m |-> m, val |-> None, fault |-> TRUE, local |-> m]
    ELSE CollapseEdges(m, GroupOf(g, u, v))

face_strip_collapse(m, u, v) ==
    IF ~is_quadmesh(m)
    THEN [m |-> m, val |-> None, fault |-> FALSE, local |-> m]
    ELSE IF ~HasHalfedge(m, u, v) /\ ~HasHalfedge(m, v, u)
    THEN [m |-> m, val |-> None, fault |-> FALSE, local |-> m]
    ELSE CollapseGroup(m, dual_edge_groups(m).g, u, v)

(***************************************************************************)
(* quad_mesh_polylines_all with dual = False (imported by face_strips_merge *)
(* under its former name quad_mesh_polylines).                             *)
(***************************************************************************)
\* x is the vertex after v in the face of (u, v); w the one after v in the
\* face of (x, v)
NextByDescendant(m, v, x) ==
    IF x = Fault \/ ~HasHalfedge(m, x, v) THEN Fault
    ELSE face_vertex_descendant(m, m.halfedge[<<x, v>>], v)

\* x is the vertex before v in the face of (v, u); w the one before v in the
\* face of (v, x)
NextByAncestor(m, v, x) ==
    IF x = Fault \/ ~HasHalfedge(m, v, x) THEN Fault
    ELSE face_vertex_ancestor(m, m.halfedge[<<v, x>>], v)

\* the vertex w after (u, v) across the two faces at v; Fault where a
\* lookup raises
PolylineNext(m, u, v) ==
    IF ~HasHalfedge(m, u, v) \/ ~HasHalfedge(m, v, u) THEN Fault
    ELSE IF m.halfedge[<<u, v>>] # None
    THEN NextByDescendant(m, v, face_vertex_descendant(m, m.halfedge[<<u, v>>], v))
    ELSE NextByAncestor(m, v, face_vertex_ancestor(m, m.halfedge[<<v, u>>], v))

RECURSIVE PolylineWalk(_, _, _, _)

\* the end of one iteration: remove (v, w) or (w, v) from the pending edges
\* and append w
PolylineAdvance(m, st, bp, count, v, w) ==
    IF w = Fault THEN [st EXCEPT !.fault = TRUE]
    ELSE IF <<v, w>> \in Range(st.edges)
    THEN PolylineWalk(m, [polyline |-> Append(st.polyline, w),
                          edges |-> Remove(st.edges, <<v, w>>),
                          nb |-> st.nb - 1, fault |-> FALSE], bp, count - 1)
    ELSE IF <<w, v>> \in Range(st.edges)
    THEN PolylineWalk(m, [polyline |-> Append(st.polyline, w),
                          edges |-> Remove(st.edges, <<w, v>>),
                          nb |-> st.nb - 1, fault |-> FALSE], bp, count - 1)
    ELSE [st EXCEPT !.fault = TRUE]

\* PolylineAt without the test on the degree of v along the boundary
PolylineAt_anydegree(m, st, bp, count, u, v) ==
    IF ~bp /\ (is_vertex_on_boundary(m, v) \/ vertex_degree(m, v) # 4 \/ st.polyline[1] = v)
    THEN st
    ELSE IF bp /\ st.polyline[1] = v
    THEN st
    ELSE PolylineAdvance(m, st, bp, count, v, PolylineNext(m, u, v))

\* one iteration at the last edge (u, v) of the polyline
PolylineAt(m, st, bp, count, u, v) ==
    IF ~bp /\ (is_vertex_on_boundary(m, v) \/ vertex_degree(m, v) # 4 \/ st.polyline[1] = v)
    THEN st
    ELSE IF bp /\ (vertex_degree(m, v) # 3 \/ st.polyline[1] = v)
    THEN st
    ELSE PolylineAdvance(m, st, bp, count, v, PolylineNext(m, u, v))

\* the inner while loop; st is [polyline, edges, nb, fault]
PolylineWalk(m, st, bp, count) ==
    IF count <= 0 \/ st.fault THEN st
    ELSE PolylineAt(m, st, bp, count, st.polyline[Len(st.polyline) - 1], Last(st.polyline))

ReversePolyline(st) == [st EXCEPT !.polyline = Reverse(@)]

\* the second turn of "for i in range(2)", unless the polyline is closed
PolylineSecond(m, r1, bp) ==
    IF r1.fault \/ r1.polyline[1] = Last(r1.polyline) THEN r1
    ELSE ReversePolyline(PolylineWalk(m, r1, bp, r1.nb))

PolylineBothWays(m, s0, bp) ==
    PolylineSecond(m, ReversePolyline(PolylineWalk(m, s0, bp, s0.nb)), bp)

RECURSIVE PolylinesLoop(_, _, _, _)

PolylinesAfter(m, acc, s2) ==
    IF s2.fault THEN [val |-> acc, fault |-> TRUE]
    ELSE PolylinesLoop(m, s2.edges, s2.nb, Append(acc, s2.polyline))

\* the outer while loop: pop the last edge, walk both ways
PolylinesLoop(m, es, nb, acc) ==
    IF nb <= 0 THEN [val |-> acc, fault |-> FALSE]
    ELSE IF es = <<>> THEN [val |-> acc, fault |-> TRUE]
    ELSE PolylinesAfter(m, acc,
            PolylineBothWays(m, [polyline |-> Last(es), edges |-> SubSeq(es, 1, Len(es) - 1),
                                 nb |-> nb - 1, fault |-> FALSE],
                             is_edge_on_boundary(m, Last(es)[1], Last(es)[2])))

PolylinesFrom(m, es) == PolylinesLoop(m, es, Len(es), <<>>)

quad_mesh_polylines_all(m) == PolylinesFrom(m, edges(m))

(***************************************************************************)
(* face_strips_merge.                                                      *)
(***************************************************************************)
\* polylines with (u, v) or (v, u) as consecutive vertices
PolylinesThrough(pls, u, v) ==
    {k \in 1..Len(pls) : \E i \in 1..(Len(pls[k]) - 1) :
        \/ (pls[k][i] = u /\ pls[k][i + 1] = v)
        \/ (pls[k][i] = v /\ pls[k][i + 1] = u)}

RECURSIVE MergeLoop(_, _, _)

\* m1 is the mesh with the two faces deleted and the new face added
MergeAdd(st, pe, i, m1) ==
    MergeLoop([m |-> m1, faces |-> Append(st.faces, m1.max_int_fkey), fault |-> FALSE],
              pe, i + 1)

\* the second deletion with the halfedges of the face left in the table
DeleteSecond_stale(m1, fkey_2) ==
    IF fkey_2 \notin DOMAIN m1.face THEN [m |-> m1, fault |-> TRUE]
    ELSE [m |-> [m1 EXCEPT !.face = [k \in DOMAIN @ \ {fkey_2} |-> @[k]]], fault |-> FALSE]

\* mesh.delete_face(fkey_1); mesh.delete_face(fkey_2): [m, fault]
DeleteSecond(m1, fkey_2) ==
    IF fkey_2 \notin DOMAIN m1.face THEN [m |-> m1, fault |-> TRUE]
    ELSE [m |-> delete_face(m1, fkey_2), fault |-> delete_face_raises(m1, fkey_2)]

DeleteTwo(m, fkey_1, fkey_2) ==
    IF delete_face_raises(m, fkey_1) THEN [m |-> delete_face(m, fkey_1), fault |-> TRUE]
    ELSE DeleteSecond(delete_face(m, fkey_1), fkey_2)

\* s is what the two deletions leave, vs the vertices of the new face
MergeDeleted(st, pe, i, s, vs) ==
    IF s.fault THEN [st EXCEPT !.m = s.m, !.fault = TRUE]
    ELSE MergeAdd(st, pe, i, add_face(s.m, vs, None))

\* face_strips_merge that puts a face of three vertices for the merged one
MergeQuad_tri(st, pe, i, fkey_1, fkey_2, a, b, c, d) ==
    IF a = Fault \/ b = Fault \/ c = Fault \/ d = Fault THEN [st EXCEPT !.fault = TRUE]
    ELSE MergeDeleted(st, pe, i, DeleteTwo(st.m, fkey_1, fkey_2), <<a, b, c>>)

MergeQuad(st, pe, i, fkey_1, fkey_2, a, b, c, d) ==
    IF a = Fault \/ b = Fault \/ c = Fault \/ d = Fault THEN [st EXCEPT !.fault = TRUE]
    ELSE MergeDeleted(st, pe, i, DeleteTwo(st.m, fkey_1, fkey_2), <<a, b, c, d>>)

\* face_strips_merge that takes the corner c twice for the new face
MergeFaces_twice(st, pe, i, fkey_1, fkey_2, a, c) ==
    MergeQuad(st, pe, i, fkey_1, fkey_2, a, face_vertex_descendant(st.m, fkey_1, a), c, c)

MergeFaces(st, pe, i, fkey_1, fkey_2, a, c) ==
    MergeQuad(st, pe, i, fkey_1, fkey_2,
              a, face_vertex_descendant(st.m, fkey_1, a),
              c, face_vertex_descendant(st.m, fkey_2, c))

MergeEdgeAt(st, pe, i, u, v) ==
    IF ~HasHalfedge(st.m, u, v) \/ ~HasHalfedge(st.m, v, u) THEN [st EXCEPT !.fault = TRUE]
    ELSE MergeFaces(st, pe, i, st.m.halfedge[<<u, v>>], st.m.halfedge[<<v, u>>],
                    face_vertex_descendant(st.m, st.m.halfedge[<<u, v>>], v),
                    face_vertex_descendant(st.m, st.m.halfedge[<<v, u>>], u))

\* per edge of the polyedge: delete the two faces, add the face [a, b, c, d];
\* st is [m, faces, fault]
MergeLoop(st, pe, i) ==
    IF i > Len(pe) - 1 \/ st.fault THEN st
    ELSE MergeEdgeAt(st, pe, i, pe[i], pe[i + 1])

\* [m: the mesh afterwards, val: the list of new faces, none: None is
\* returned instead of a list, fault]
MergeResult(s) == [m |-> s.m, val |-> s.faces, none |-> FALSE, fault |-> s.fault]

\* return None, or the fault raised before anything is changed
MergeNone(m, fault) == [m |-> m, val |-> <<>>, none |-> ~fault, fault |-> fault]

\* face_strips_merge that looks for singular vertices only after the faces
\* along the polyedge are merged
MergeAlong_late(m, pe) ==
    IF \E i \in 1..Len(pe) : is_vertex_singular(m, pe[i])
    THEN MergeNone(MergeLoop([m |-> m, faces |-> <<>>, fault |-> FALSE], pe, 1).m, FALSE)
    ELSE MergeResult(MergeLoop([m |-> m, faces |-> <<>>, fault |-> FALSE], pe, 1))

MergeAlong(m, pe) ==
    IF \E i \in 1..Len(pe) : is_vertex_singular(m, pe[i])
    THEN MergeNone(m, FALSE)
    ELSE MergeResult(MergeLoop([m |-> m, faces |-> <<>>, fault |-> FALSE], pe, 1))

\* polyedge = polyline for every polyline through the edge: the last one
\* stays; the name is unbound when there is none
MergePick(m, pls, ks) ==
    IF ks = {} THEN MergeNone(m, TRUE)
    ELSE MergeAlong(m, pls[CHOOSE k \in ks : \A j \in ks : j <= k])

MergeSearch(m, pls, u, v) ==
    IF pls.fault THEN MergeNone(m, TRUE)
    ELSE MergePick(m, pls.val, PolylinesThrough(pls.val, u, v))

face_strips_merge(m, u, v) ==
    IF ~is_quadmesh(m) THEN MergeNone(m, FALSE)
    ELSE IF ~HasHalfedge(m, u, v) \/ ~HasHalfedge(m, v, u)
    THEN MergeNone(m, TRUE)
    ELSE IF is_edge_on_boundary(m, u, v) THEN MergeNone(m, FALSE)
    ELSE MergeSearch(m, quad_mesh_polylines_all(m), u, v)

(***************************************************************************)
(* face_strip_subdivide.  simple_split and mesh_propagation are not part   *)
(* of the sources at hand; their joint effect is taken from the            *)
(* description of the operation: every edge of the strip of (u, v) gets a  *)
(* midpoint vertex and every face of the strip is cut in two quads         *)
(* through the midpoints of its two strip edges.                           *)
(***************************************************************************)
EndpointSets(es) == {{es[i][1], es[i][2]} : i \in 1..Len(es)}

\* the undirected edges of the strip of (u, v)
StripEdgeSet(m, u, v) == EndpointSets(collect_strip(m, u, v).val)

RECURSIVE AddMidpoints(_, _)

AddMidpoint(st, es, m1) ==
    AddMidpoints([m |-> m1, mid |-> ({es[1][1], es[1][2]} :> m1.max_int_key) @@ st.mid],
                 Tail(es))

\* st is [m, mid]: mid maps an undirected edge to its midpoint vertex
AddMidpoints(st, es) ==
    IF es = <<>> THEN st
    ELSE AddMidpoint(st, es, add_vertex(st.m, edge_midpoint(st.m, es[1][1], es[1][2])))

\* the two quads of the face f cut through the midpoints p of (f[1], f[2])
\* and q of (f[3], f[4])
SplitFace12(m0, f, p, q) ==
    add_face(add_face(m0, <<f[1], p, q, f[4]>>, None), <<p, f[2], f[3], q>>, None)

\* the two quads of the face f cut through the midpoints p of (f[2], f[3])
\* and q of (f[4], f[1])
SplitFace23(m0, f, p, q) ==
    add_face(add_face(m0, <<f[1], f[2], p, q>>, None), <<q, p, f[3], f[4]>>, None)

SplitFace(m, fkey, f, mid) ==
    IF {f[1], f[2]} \in DOMAIN mid /\ {f[3], f[4]} \in DOMAIN mid
    THEN SplitFace12(delete_face(m, fkey), f, mid[{f[1], f[2]}], mid[{f[3], f[4]}])
    ELSE IF {f[2], f[3]} \in DOMAIN mid /\ {f[4], f[1]} \in DOMAIN mid
    THEN SplitFace23(delete_face(m, fkey), f, mid[{f[2], f[3]}], mid[{f[4], f[1]}])
    ELSE m

RECURSIVE SplitFaces(_, _, _)
SplitFaces(m, fs, mid) ==
    IF fs = <<>> THEN m
    ELSE IF fs[1] \notin DOMAIN m.face THEN m
    ELSE SplitFaces(SplitFace(m, fs[1], m.face[fs[1]], mid), Tail(fs), mid)

SplitWith(s1, fs) == SplitFaces(s1.m, fs, s1.mid)

SplitEdges(m, E) ==
    SplitWith(AddMidpoints([m |-> m, mid |-> <<>>],
                  SortedPairs({e \in DOMAIN m.halfedge : {e[1], e[2]} \in E /\ Before(e[1], e[2])})),
              faces(m))

\* simple_split followed by mesh_propagation
SplitStrip(m, u, v) == SplitEdges(m, StripEdgeSet(m, u, v))

\* no face has both pairs of opposite edges in E
CrossedOnce(m, E) ==
    \A fkey \in DOMAIN m.face :
        ~(/\ {m.face[fkey][1], m.face[fkey][2]} \in E
          /\ {m.face[fkey][3], m.face[fkey][4]} \in E
          /\ {m.face[fkey][2], m.face[fkey][3]} \in E
          /\ {m.face[fkey][4], m.face[fkey][1]} \in E)

SplittableStrip(m, se) == ~se.fault /\ CrossedOnce(m, EndpointSets(se.val))

\* every halfedge of every face has that face in the halfedge table and its
\* opposite is in the table: no edge has a third face, no two faces run along
\* an edge the same way, no face has a vertex twice in a row
HalfedgesMatch(m) ==
    \A fkey \in DOMAIN m.face :
        \A e \in Range(face_halfedges(m, fkey)) :
            /\ e[1] # e[2]
            /\ HasHalfedge(m, e[1], e[2]) /\ m.halfedge[e] = fkey
            /\ HasHalfedge(m, e[2], e[1])

\* the description covers the split: the faces lie along their edges as the
\* halfedge table has it, the strip of (u, v) can be followed and crosses
\* each of its faces once
Splittable(m, u, v) == HalfedgesMatch(m) /\ SplittableStrip(m, collect_strip(m, u, v))

\* [m, val, fault]
face_strip_subdivide(m, u, v) ==
    IF ~is_quadmesh(m) THEN [m |-> m, val |-> None, fault |-> FALSE]
    ELSE IF /\ (~HasHalfedge(m, u, v) \/ m.halfedge[<<u, v>>] = None)
            /\ (~HasHalfedge(m, v, u) \/ m.halfedge[<<v, u>>] = None)
    THEN [m |-> m, val |-> None, fault |-> FALSE]
    ELSE [m |-> SplitStrip(m, u, v), val |-> 0, fault |-> FALSE]

(***************************************************************************)
(* face_strip_insert.  unweld_mesh_along_edge_path is not part of the      *)
(* sources at hand; it is taken from its contract: every vertex of the     *)
(* path is duplicated, the mesh is split along the path, and the pairs     *)
(* (old, new) come back in path order.  The faces on the left of the path  *)
(* get the duplicate, the side on which the new faces [new, old, old, new] *)
(* of face_strip_insert fit.                                               *)
(***************************************************************************)
RECURSIVE WalkAncestors(_, _, _, _, _)

WalkAncestorsOver(m, p, q, n, y) ==
    IF y = Fault \/ y = q \/ ~HasHalfedge(m, p, y) THEN {}
    ELSE WalkAncestors(m, p, m.halfedge[<<p, y>>], q, n - 1)

\* faces around p from fkey on, turning over the ancestors of p, up to the
\* edge (p, q) or the boundary
WalkAncestors(m, p, fkey, q, n) ==
    IF n = 0 \/ fkey \notin DOMAIN m.face THEN {}
    ELSE {fkey} \cup WalkAncestorsOver(m, p, q, n, face_vertex_ancestor(m, fkey, p))

RECURSIVE WalkDescendants(_, _, _, _)

WalkDescendantsOver(m, p, n, x) ==
    IF x = Fault \/ ~HasHalfedge(m, x, p) THEN {}
    ELSE WalkDescendants(m, p, m.halfedge[<<x, p>>], n - 1)

\* faces around p from fkey on, turning over the descendants of p, up to
\* the boundary
WalkDescendants(m, p, fkey, n) ==
    IF n = 0 \/ fkey \notin DOMAIN m.face THEN {}
    ELSE {fkey} \cup WalkDescendantsOver(m, p, n, face_vertex_descendant(m, fkey, p))

\* the faces at p on the left of the path q -> p -> r (None: no such vertex)
LeftFaces(m, p, q, r) ==
    IF r # None
    THEN (IF HasHalfedge(m, p, r)
          THEN WalkAncestors(m, p, m.halfedge[<<p, r>>], q, Cardinality(DOMAIN m.face))
          ELSE {})
    ELSE IF q # None /\ HasHalfedge(m, q, p)
    THEN WalkDescendants(m, p, m.halfedge[<<q, p>>], Cardinality(DOMAIN m.face))
    ELSE {}

Substitute(fv, old, new) == [i \in 1..Len(fv) |-> IF fv[i] = old THEN new ELSE fv[i]]

RECURSIVE SubstituteInFaces(_, _, _, _)
SubstituteInFaces(m, fs, old, new) ==
    IF fs = <<>> THEN m
    ELSE SubstituteInFaces(
            add_face(delete_face(m, fs[1]), Substitute(m.face[fs[1]], old, new), fs[1]),
            Tail(fs), old, new)

RECURSIVE UnweldLoop(_, _, _, _, _)

\* m1 is the mesh with the duplicate of p added, left the faces that get it
UnweldVertex(m0, st, vp, closed, i, p, m1, left) ==
    UnweldLoop(m0, [m |-> SubstituteInFaces(m1, left, p, m1.max_int_key),
                    duplicates |-> Append(st.duplicates, <<p, m1.max_int_key>>)],
               vp, closed, i + 1)

\* st is [m, duplicates]; m0 the mesh before unwelding, vp the vertices of
\* the path, closed whether the path comes back to its first vertex
UnweldLoop(m0, st, vp, closed, i) ==
    IF i > Len(vp) THEN st
    ELSE UnweldVertex(m0, st, vp, closed, i, vp[i], add_vertex(st.m, st.m.xyz[vp[i]]),
            SortedSeq(LeftFaces(m0, vp[i],
                IF i > 1 THEN vp[i - 1] ELSE IF closed THEN Last(vp) ELSE None,
                IF i < Len(vp) THEN vp[i + 1] ELSE IF closed THEN vp[1] ELSE None)))

unweld_mesh_along_edge_path(m, vp, closed) ==
    UnweldLoop(m, [m |-> m, duplicates |-> <<>>], vp, closed, 1)

RECURSIVE SumXY(_)

AddXY(p, r) == <<p[1] + r[1], p[2] + r[2]>>

\* sum of a sequence of coordinate pairs
SumXY(ps) == IF ps = <<>> THEN <<0, 0>> ELSE AddXY(ps[1], SumXY(Tail(ps)))

DivXY(t, n) == <<t[1] \div n, t[2] \div n>>

face_centroid(m, fkey) ==
    DivXY(SumXY([i \in 1..Len(m.face[fkey]) |-> m.xyz[m.face[fkey][i]]]), Len(m.face[fkey]))

\* a + factor * (b - a), factor a third
Towards(a, b) == <<a[1] + (b[1] - a[1]) \div 3, a[2] + (b[2] - a[2]) \div 3>>

\* bn: the neighbours over a boundary edge that are off the path, fs the
\* faces of vkey
TargetOf(m, vkey, bn, fs) ==
    IF bn # <<>> THEN Towards(m.xyz[vkey], m.xyz[Last(bn)])
    ELSE IF fs = <<>> THEN <<>>
    ELSE DivXY(SumXY([i \in 1..Len(fs) |-> face_centroid(m, fs[i])]), Len(fs))

BoundaryNbrs(m, vkey, nbrs, duplicate_list) ==
    SeqFilterNot(nbrs, {n \in Range(nbrs) :
        ~is_edge_on_boundary(m, vkey, n) \/ n \in duplicate_list})

\* where the duplicate vkey is moved towards: a third along the last
\* boundary edge to a vertex off the path, else the centroid of the
\* centroids of its faces (faces weigh the same: equal areas); <<>> when
\* the vertex has no face (division by zero)
MoveTarget(m, vkey, duplicate_list) ==
    TargetOf(m, vkey, BoundaryNbrs(m, vkey, vertex_neighbors(m, vkey), duplicate_list),
             vertex_faces(m, vkey))

RECURSIVE MoveDuplicates(_, _, _)

MoveTo(st, vs, duplicate_list, t) ==
    IF t = <<>> THEN [st EXCEPT !.fault = TRUE]
    ELSE MoveDuplicates([st EXCEPT !.m.xyz[vs[1]] = Towards(@, t)], Tail(vs), duplicate_list)

\* st is [m, fault]; vs the duplicate list in order
MoveDuplicates(st, vs, duplicate_list) ==
    IF vs = <<>> \/ st.fault THEN st
    ELSE MoveTo(st, vs, duplicate_list, MoveTarget(st.m, vs[1], duplicate_list))

RECURSIVE StitchLoop(_, _, _)
\* for i in range(len(duplicates) - 1): add the face [a, b, c, d]
StitchLoop(m, dup, i) ==
    IF i > Len(dup) - 1 THEN m
    ELSE StitchLoop(add_face(m, <<dup[i][2], dup[i][1], dup[i + 1][1], dup[i + 1][2]>>, None),
                    dup, i + 1)

\* duplicates[i - 1] for i = len(duplicates) - 2, what the for loop left: a
\* negative index counts from the end
LeftOver(dup) ==
    IF Len(dup) - 3 >= 0 THEN dup[Len(dup) - 2] ELSE dup[Len(dup)]

\* the closing face of a loop
ClosingFace(dup) == <<dup[Len(dup)][2], LeftOver(dup)[1], dup[1][1], dup[1][2]>>

\* [m, val, fault, duplicates]; m3 is the mesh with the faces of the for loop
InsertClose(loop, dup, m3) ==
    IF ~loop THEN [m |-> m3, val |-> 0, fault |-> FALSE, duplicates |-> dup]
    ELSE IF Len(dup) < 2 THEN [m |-> m3, val |-> None, fault |-> TRUE, duplicates |-> dup]
    ELSE [m |-> add_face(m3, ClosingFace(dup), None), val |-> 0, fault |-> FALSE,
          duplicates |-> dup]

InsertStitch(loop, dup, s2) ==
    IF s2.fault THEN [m |-> s2.m, val |-> None, fault |-> TRUE, duplicates |-> dup]
    ELSE InsertClose(loop, dup, StitchLoop(s2.m, dup, 1))

InsertMove(loop, m1, dup, duplicate_list) ==
    InsertStitch(loop, dup,
        MoveDuplicates([m |-> m1, fault |-> FALSE], duplicate_list, Range(duplicate_list)))

InsertUnwelded(loop, s1) == InsertMove(loop, s1.m, s1.duplicates, Concat(s1.duplicates))

\* the edge path loses its last edge when the vertex path is a loop
InsertPath(m, vertex_path, loop) ==
    InsertUnwelded(loop,
        unweld_mesh_along_edge_path(m,
            IF loop THEN SubSeq(vertex_path, 1, Len(vertex_path) - 1) ELSE vertex_path, loop))

face_strip_insert(m, vertex_path) ==
    InsertPath(m, vertex_path, vertex_path[1] = Last(vertex_path))

(***************************************************************************)
(* Boundary polylines.                                                     *)
(***************************************************************************)
\* first neighbour of key, in iteration order, whose halfedge has no face
FirstNoneNbr(m, key) ==
    SeqFilterNot(vertex_neighbors(m, key),
                 {nbr \in m.vertex : HasHalfedge(m, key, nbr) /\ m.halfedge[<<key, nbr>>] # None})

RECURSIVE TraceBoundary(_, _, _)

\* boundary.append(nbr) for the first neighbour without face, if there is one
Extend(boundary, cand) == IF cand = <<>> THEN boundary ELSE Append(boundary, cand[1])

\* A vertex to remove that is not pending is list.remove's ValueError.
TraceStep(m, vs, b1) ==
    IF b1[1] = Last(b1) THEN [boundary |-> b1, vs |-> vs, fault |-> FALSE]
    ELSE IF Last(b1) \notin Range(vs) THEN [boundary |-> b1, vs |-> vs, fault |-> TRUE]
    ELSE TraceBoundary(m, b1, Remove(vs, Last(b1)))

\* the inner "while 1" of mesh_polylines_boundary; vs is the pending list.
TraceBoundary(m, boundary, vs) ==
    TraceStep(m, vs, Extend(boundary, FirstNoneNbr(m, Last(boundary))))

RECURSIVE BoundariesLoop(_, _, _)

\* mesh_polylines_boundary that stops after its first boundary
BoundariesNext_one(m, acc, t) == [val |-> <<t.boundary>>, fault |-> t.fault]

\* t is the boundary traced from the popped vertex
BoundariesNext(m, acc, t) ==
    IF t.fault THEN [val |-> acc, fault |-> TRUE]
    ELSE BoundariesLoop(m, t.vs, Append(acc, t.boundary))

BoundariesLoop(m, vs, acc) ==
    IF Len(vs) = 0 THEN [val |-> acc, fault |-> FALSE]
    ELSE BoundariesNext(m, acc, TraceBoundary(m, <<Last(vs)>>, SubSeq(vs, 1, Len(vs) - 1)))

mesh_polylines_boundary(m) == BoundariesLoop(m, SortedSeq(vertices_on_boundary(m)), <<>>)

(***************************************************************************)
(* mesh_insert_vertex_on_edge.                                             *)
(***************************************************************************)
\* face_vertices.insert(face_vertices.index(x), vkey)
InsertBefore(fv, x, vkey) ==
    SubSeq(fv, 1, IndexOf(fv, x) - 1) \o <<vkey>> \o SubSeq(fv, IndexOf(fv, x), Len(fv))

\* Mesh.add_face with a key in the list that is no vertex of the mesh, here
\* None.  What the kernel does with it is the kernel's: unknown is "KeyError"
\* where the halfedges of the key are missing and the call raises, the face
\* left deleted, and "add_vertex" where the kernel adds a vertex of its own,
\* at the origin, for the key and puts it in the face
AddFaceUnknown(m, vs, fkey, unknown) ==
    IF None \notin Range(vs) THEN [m |-> add_face(m, vs, fkey), fault |-> FALSE]
    ELSE IF unknown = "KeyError" THEN [m |-> m, fault |-> TRUE]
    ELSE [m |-> add_face(add_vertex(m, <<0, 0>>),
                         Substitute(vs, None, m.max_int_key + 1), fkey),
          fault |-> FALSE]

\* the body of the loop for a face fkey that is not None: x is halfedge[-1]
InsertInFace(st, fkey, x, vkey, unknown) ==
    IF st.fault THEN st
    ELSE IF fkey \notin DOMAIN st.m.face \/ x \notin Range(st.m.face[fkey])
         \/ delete_face_raises(st.m, fkey)
    THEN [st EXCEPT !.fault = TRUE]
    ELSE AddFaceUnknown(delete_face(st.m, fkey),
                        InsertBefore(st.m.face[fkey], x, vkey), fkey, unknown)

\* one pass of the loop over zip(edge_faces(u, v), [(u, v), (v, u)])
InsertOnSide(st, fkey, x, vkey, unknown) ==
    IF fkey = None THEN st ELSE InsertInFace(st, fkey, x, vkey, unknown)

\* the loop: m0 is the mesh edge_faces(u, v) is read on, m1 the mesh with the
\* vertex added
InsertOnSides(m0, m1, u, v, vkey, unknown) ==
    InsertOnSide(InsertOnSide([m |-> m1, fault |-> FALSE],
                              m0.halfedge[<<u, v>>], v, vkey, unknown),
                 m0.halfedge[<<v, u>>], u, vkey, unknown)

\* mesh_insert_vertex_on_edge(mesh, u, v, vkey): without vkey a vertex is
\* added at the midpoint and its key is not kept, vkey stays None;
\* edge_faces(u, v) of a pair that is no edge is a KeyError
mesh_insert_vertex_on_edge(m, u, v, vkey, unknown) ==
    IF ~HasHalfedge(m, u, v) \/ ~HasHalfedge(m, v, u)
    THEN [m |-> IF vkey = None THEN add_vertex(m, edge_midpoint(m, u, v)) ELSE m,
          fault |-> TRUE]
    ELSE InsertOnSides(m, IF vkey = None THEN add_vertex(m, edge_midpoint(m, u, v)) ELSE m,
                       u, v, vkey, unknown)

(***************************************************************************)
(* The calls as actions.  ret is the record of the last call: op, the     *)
(* arguments, fault for an exception raised, and what was returned: val   *)
(* for a number or None, and a field of its own for a list, a set or a    *)
(* boolean.                                                                *)
(***************************************************************************)
Snapshot == [mesh |-> mesh, strip |-> strip]

\* a query: the mesh stays, rec is the record of the call
QueryCall(rec) ==
    /\ ret' = rec
    /\ pre' = Snapshot
    /\ UNCHANGED <<mesh, strip, ord, nops>>

CollectStripsCall(r) ==
    /\ strip' = r.table
    /\ ret' = [op |-> "collect_strips", val |-> r.val, fault |-> r.fault]
    /\ pre' = Snapshot
    /\ UNCHANGED <<mesh, ord, nops>>

\* QuadMesh.collect_strips(): self.strip is rebuilt, the return value kept
CollectStrips == CollectStripsCall(collect_strips(mesh))

CollectStripCall(e, r) ==
    QueryCall([op |-> "collect_strip", u |-> e[1], v |-> e[2],
               edges |-> r.val, steps |-> r.steps, fault |-> r.fault])

\* QuadMesh.collect_strip(u0, v0) on a halfedge of the mesh
CollectStrip ==
    \E e \in DOMAIN mesh.halfedge : CollectStripCall(e, collect_strip(mesh, e[1], e[2]))

PolyedgeCall(e, r) ==
    QueryCall([op |-> "polyedge", u |-> e[1], v |-> e[2],
               polyedge |-> r.val, iters |-> r.iters, fault |-> r.fault])

\* QuadMesh.polyedge(u0, v0) on a halfedge of the mesh
Polyedge ==
    \E e \in DOMAIN mesh.halfedge : PolyedgeCall(e, polyedge(mesh, e[1], e[2]))

PolyedgesCall(r) == QueryCall([op |-> "polyedges", polyedges |-> r.val, fault |-> r.fault])

\* QuadMesh.polyedges()
Polyedges == PolyedgesCall(polyedges(mesh))

\* QuadMesh.is_vertex_singular(vkey)
IsVertexSingular ==
    \E vkey \in mesh.vertex :
        QueryCall([op |-> "is_vertex_singular", vkey |-> vkey,
                   singular |-> is_vertex_singular(mesh, vkey), fault |-> FALSE])

\* QuadMesh.singularities()
Singularities ==
    QueryCall([op |-> "singularities", singularities |-> singularities(mesh), fault |-> FALSE])

PolylinesAllCall(r) ==
    QueryCall([op |-> "quad_mesh_polylines_all", polylines |-> r.val, fault |-> r.fault])

\* quad_mesh_polylines_all(mesh) on a quad mesh
QuadMeshPolylinesAll == is_quadmesh(mesh) /\ PolylinesAllCall(quad_mesh_polylines_all(mesh))

EdgeGroupsCall(r) ==
    QueryCall([op |-> "dual_edge_groups", groups |-> r.g, max_group |-> r.max,
               none |-> FALSE, fault |-> FALSE])

\* dual_edge_groups(mesh): None for a mesh that is no quad mesh
DualEdgeGroups ==
    IF is_quadmesh(mesh) THEN EdgeGroupsCall(dual_edge_groups(mesh))
    ELSE QueryCall([op |-> "dual_edge_groups", groups |-> <<>>, max_group |-> 0,
                    none |-> TRUE, fault |-> FALSE])

\* w is a vertex, None or Fault
OppositeVertexCall(e, w) ==
    QueryCall([op |-> "vertex_opposite_vertex", u |-> e[1], v |-> e[2],
               val |-> IF w = Fault THEN None ELSE w, fault |-> w = Fault])

\* QuadMesh.vertex_opposite_vertex(u, v) on a halfedge of the mesh
VertexOppositeVertex ==
    \E e \in DOMAIN mesh.halfedge :
        OppositeVertexCall(e, vertex_opposite_vertex(mesh, e[1], e[2]))

PolylinesBoundaryCall(r) ==
    QueryCall([op |-> "mesh_polylines_boundary", polylines |-> r.val, fault |-> r.fault])

\* mesh_polylines_boundary(mesh)
PolylinesBoundary == PolylinesBoundaryCall(mesh_polylines_boundary(mesh))

\* QuadMesh.face_strips(fkey) on a face of the mesh
FaceStrips ==
    \E fkey \in DOMAIN mesh.face :
        QueryCall([op |-> "face_strips", fkey |-> fkey,
                   strips |-> face_strips(mesh, strip, fkey), fault |-> FALSE])

StripFacesCall(skey, r) ==
    QueryCall([op |-> "strip_faces", skey |-> skey, fkeys |-> r.val, fault |-> r.fault])

\* QuadMesh.strip_faces(skey) on a strip of the table
StripFaces ==
    \E skey \in DOMAIN strip : StripFacesCall(skey, strip_faces(mesh, strip, skey))

SingularityPolyedgesCall(r) ==
    QueryCall([op |-> "singularity_polyedges", polyedges |-> r.val, kept |-> r.kept,
               fault |-> r.fault])

\* QuadMesh.singularity_polyedges()
SingularityPolyedges == SingularityPolyedgesCall(singularity_polyedges(mesh))

(***************************************************************************)
(* Specification of the queries: any library mesh, any order of calls.     *)
(***************************************************************************)
Init ==
    /\ mesh \in Library
    /\ strip = <<>>
    /\ ord \in {"asc", "desc"}
    /\ ret = [op |-> "init", fault |-> FALSE]
    /\ pre = [mesh |-> mesh, strip |-> <<>>]
    /\ nops = 0

Next ==
    \/ CollectStrips
    \/ CollectStrip
    \/ Polyedge
    \/ Polyedges
    \/ IsVertexSingular
    \/ Singularities
    \/ PolylinesBoundary
    \/ VertexOppositeVertex
    \/ DualEdgeGroups
    \/ QuadMeshPolylinesAll
    \/ FaceStrips
    \/ StripFaces
    \/ SingularityPolyedges

Spec == Init /\ [][Next]_vars

(***************************************************************************)
(* Calls of the edit operations.                                           *)
(***************************************************************************)
\* vertex pairs handed to the edits: the halfedges, and pairs of vertices
\* that are no edge, from the first vertex
EditInputs(m) ==
    DOMAIN m.halfedge
        \cup {e \in m.vertex \X m.vertex :
                /\ e[1] # e[2]
                /\ ~HasHalfedge(m, e[1], e[2])
                /\ \A w \in m.vertex : e[1] <= w}

\* polylines over interior edges that run from boundary to boundary or come
\* back to their start
ThroughPaths(m, pls) ==
    IF pls.fault THEN {}
    ELSE {pl \in Range(pls.val) :
            /\ ~is_edge_on_boundary(m, pl[1], pl[2])
            /\ \/ pl[1] = Last(pl)
               \/ is_vertex_on_boundary(m, pl[1]) /\ is_vertex_on_boundary(m, Last(pl))}

\* vertex paths handed to face_strip_insert: on a quad mesh whose faces lie
\* along their edges as the halfedge table has it
InsertPaths(m) ==
    IF ~is_quadmesh(m) \/ ~HalfedgesMatch(m) THEN {}
    ELSE ThroughPaths(m, quad_mesh_polylines_all(m))

\* another edit can be called: an exception that is raised ends the run
Running == nops < MaxOps /\ ~ret.fault

\* an edit call: r is what the operation did, rec the record of the call
EditCall(r, rec) ==
    /\ mesh' = r.m
    /\ ret' = rec
    /\ pre' = Snapshot
    /\ nops' = nops + 1
    /\ UNCHANGED <<strip, ord>>

CollapseCall(e, r) ==
    EditCall(r, [op |-> "face_strip_collapse", u |-> e[1], v |-> e[2],
                 val |-> r.val, none |-> r.val = None, fault |-> r.fault, local |-> r.local])

\* face_strip_collapse that collects the strips of the mesh it leaves
FaceStripCollapse_resync ==
    /\ Running
    /\ \E e \in EditInputs(mesh) :
          /\ mesh' = face_strip_collapse(mesh, e[1], e[2]).m
          /\ strip' = collect_strips(mesh').table
          /\ ret' = [op |-> "face_strip_collapse", fault |-> face_strip_collapse(mesh, e[1], e[2]).fault]
          /\ pre' = Snapshot
          /\ nops' = nops + 1
          /\ UNCHANGED ord

\* face_strip_collapse(cls, mesh, u, v): the caller keeps its mesh object
FaceStripCollapse ==
    /\ Running
    /\ \E e \in EditInputs(mesh) : CollapseCall(e, face_strip_collapse(mesh, e[1], e[2]))

SubdivideCall(e, r) ==
    EditCall(r, [op |-> "face_strip_subdivide", u |-> e[1], v |-> e[2],
                 val |-> r.val, none |-> r.val = None, fault |-> r.fault])

\* the inputs of face_strip_subdivide: where the call splits a strip, the
\* description of the split covers it
SubdivideInputs(m) ==
    {e \in EditInputs(m) :
        is_quadmesh(m) /\ HasHalfedge(m, e[1], e[2]) => Splittable(m, e[1], e[2])}

\* face_strip_subdivide(cls, mesh, u, v)
FaceStripSubdivide ==
    /\ Running
    /\ \E e \in SubdivideInputs(mesh) :
          SubdivideCall(e, face_strip_subdivide(mesh, e[1], e[2]))

MergeCall(e, r) ==
    EditCall(r, [op |-> "face_strips_merge", u |-> e[1], v |-> e[2],
                 faces |-> r.val, none |-> r.none, fault |-> r.fault])

\* face_strips_merge(cls, mesh, u, v)
FaceStripsMerge ==
    /\ Running
    /\ \E e \in EditInputs(mesh) : MergeCall(e, face_strips_merge(mesh, e[1], e[2]))

InsertCall(vp, r) ==
    EditCall(r, [op |-> "face_strip_insert", vertex_path |-> vp,
                 val |-> r.val, none |-> r.val = None, fault |-> r.fault,
                 duplicates |-> r.duplicates])

\* face_strip_insert(cls, mesh, vertex_path)
FaceStripInsert ==
    /\ Running
    /\ \E vp \in InsertPaths(mesh) : InsertCall(vp, face_strip_insert(mesh, vp))

(***************************************************************************)
(* Specification of the edits: a mesh of the library, its strips           *)
(* collected before the first edit or not at all, up to MaxOps edit calls, *)
(* no call after one that raised.                                          *)
(***************************************************************************)
EditLibrary == {Grid(1, 1), Grid(2, 1), Grid(2, 2), LShape, Tri3, Ring(2), TriQuad}

InitEdit ==
    /\ mesh \in EditLibrary
    /\ strip = <<>>
    /\ ord \in {"asc", "desc"}
    /\ ret = [op |-> "init", fault |-> FALSE]
    /\ pre = [mesh |-> mesh, strip |-> <<>>]
    /\ nops = 0

\* collect_strips() before the first edit call
CollectStripsFirst == nops = 0 /\ CollectStrips

NextEdit ==
    \/ CollectStripsFirst
    \/ FaceStripCollapse
    \/ FaceStripSubdivide
    \/ FaceStripsMerge
    \/ FaceStripInsert

SpecEdit == InitEdit /\ [][NextEdit]_vars

(***************************************************************************)
(* Specification of the export: a mesh of the library, up to MaxOps calls  *)
(* of delete_face and cull_vertices, which leave keys that are not         *)
(* contiguous, and the mesh built again from its lists.                    *)
(***************************************************************************)
KernelCall(m, rec) ==
    /\ mesh' = m
    /\ ret' = rec
    /\ pre' = Snapshot
    /\ nops' = nops + 1
    /\ UNCHANGED <<strip, ord>>

\* mesh.delete_face(fkey)
DeleteFace ==
    /\ Running
    /\ \E fkey \in DOMAIN mesh.face :
          KernelCall(delete_face(mesh, fkey),
                     [op |-> "delete_face", val |-> fkey,
                      fault |-> delete_face_raises(mesh, fkey)])

\* mesh.cull_vertices()
CullVertices ==
    /\ Running
    /\ KernelCall(cull_vertices(mesh), [op |-> "cull_vertices", fault |-> FALSE])

RebuildCall(r) ==
    QueryCall([op |-> "to_vertices_and_faces", fault |-> r.fault,
               rebuilt |-> IF r.fault THEN EmptyMesh
                           ELSE from_vertices_and_faces(r.vertices, r.faces)])

\* Mesh.from_vertices_and_faces(*mesh.to_vertices_and_faces(keep_keys=False))
ToVerticesAndFaces == ~ret.fault /\ RebuildCall(to_vertices_and_faces(mesh))

NextExport ==
    \/ DeleteFace
    \/ CullVertices
    \/ ToVerticesAndFaces

SpecExport == Init /\ [][NextExport]_vars

(***************************************************************************)
(* Specification of the insertion of a vertex on an edge: a mesh, up to    *)
(* MaxOps calls of add_vertex and mesh_insert_vertex_on_edge, the key      *)
(* given being None or a vertex of the mesh that is in no face.            *)
(***************************************************************************)
InitInsert ==
    /\ mesh \in Grids \cup {Tri3, TriQuad}
    /\ strip = <<>>
    /\ ord \in {"asc", "desc"}
    /\ ret = [op |-> "init", fault |-> FALSE]
    /\ pre = [mesh |-> mesh, strip |-> <<>>]
    /\ nops = 0

\* mesh.add_vertex(): a vertex in no face
AddVertex ==
    /\ Running
    /\ KernelCall(add_vertex(mesh, <<0, 0>>),
                  [op |-> "add_vertex", val |-> mesh.max_int_key + 1, fault |-> FALSE])

\* the vertices of no edge
Isolated(m) == m.vertex \ Connected(m)

InsertVertexCall(e, vkey, r) ==
    KernelCall(r.m, [op |-> "mesh_insert_vertex_on_edge", u |-> e[1], v |-> e[2],
                     vkey |-> vkey, fault |-> r.fault])

\* mesh_insert_vertex_on_edge(mesh, u, v, vkey) on a halfedge of the mesh
MeshInsertVertexOnEdge ==
    /\ Running
    /\ \E e \in DOMAIN mesh.halfedge : \E vkey \in {None} \cup Isolated(mesh) :
          \E unknown \in {"KeyError", "add_vertex"} :
              InsertVertexCall(e, vkey,
                               mesh_insert_vertex_on_edge(mesh, e[1], e[2], vkey, unknown))

NextInsert ==
    \/ AddVertex
    \/ MeshInsertVertexOnEdge

SpecInsert == InitInsert /\ [][NextInsert]_vars

(***************************************************************************)
(* Specification of the strip table: a mesh, the table collected at any    *)
(* time, and up to MaxOps calls that patch the table, edit the mesh or     *)
(* delete a face of it.                                                    *)
(***************************************************************************)
TableLibrary == {Grid(1, 1), Grid(2, 1)}

InitTable ==
    /\ mesh \in TableLibrary
    /\ strip = <<>>
    /\ ord \in {"asc", "desc"}
    /\ ret = [op |-> "init", fault |-> FALSE]
    /\ pre = [mesh |-> mesh, strip |-> <<>>]
    /\ nops = 0

\* a call that writes the strip table and leaves the mesh
TableCall(r, rec) ==
    /\ strip' = r.table
    /\ ret' = rec
    /\ pre' = Snapshot
    /\ nops' = nops + 1
    /\ UNCHANGED <<mesh, ord>>

\* collect_strips() at any time before a call has raised
CollectStripsAgain == ~ret.fault /\ CollectStrips

SubstituteCall(e, r) ==
    TableCall(r, [op |-> "substitute_vertex_in_strips", u |-> e[1], v |-> e[2],
                  fault |-> r.fault])

\* substitute_vertex_in_strips(old_vkey, new_vkey) on all strips or on one,
\* a vertex substituted by one next to it
SubstituteVertexInStrips ==
    /\ Running
    /\ \E e \in DOMAIN mesh.halfedge :
          \E strips \in {DOMAIN strip} \cup {{skey} : skey \in DOMAIN strip} :
              SubstituteCall(e, substitute_vertex_in_strips(strip, e[1], e[2], strips))

DeleteInStripsCall(fkey, r) ==
    TableCall(r, [op |-> "delete_face_in_strips", val |-> fkey, fault |-> r.fault])

\* delete_face_in_strips(fkey)
DeleteFaceInStrips ==
    /\ Running
    /\ \E fkey \in DOMAIN mesh.face :
          DeleteInStripsCall(fkey, delete_face_in_strips(mesh, strip, fkey))

NextTable ==
    \/ CollectStripsAgain
    \/ SubstituteVertexInStrips
    \/ DeleteFaceInStrips
    \/ FaceStripCollapse
    \/ FaceStripSubdivide
    \/ FaceStripsMerge
    \/ FaceStripInsert
    \/ DeleteFace

SpecTable == InitTable /\ [][NextTable]_vars

(***************************************************************************)
(* Specification of the queries on quad meshes and pseudo quad meshes.      *)
(***************************************************************************)
InitPseudo ==
    /\ mesh \in PseudoLibrary \cup Grids
    /\ strip = <<>>
    /\ ord \in {"asc", "desc"}
    /\ ret = [op |-> "init", fault |-> FALSE]
    /\ pre = [mesh |-> mesh, strip |-> <<>>]
    /\ nops = 0

NextPseudo ==
    \/ DualEdgeGroups
    \/ IsVertexSingular
    \/ Singularities

SpecPseudo == InitPseudo /\ [][NextPseudo]_vars

(***************************************************************************)
(* Specification of list_split: any list of up to MaxLen items, any set of *)
(* its indices.                                                            *)
(***************************************************************************)
ListItems == 0..2

Lists == UNION {[1..n -> ListItems] : n \in 1..MaxLen}

InitLists ==
    /\ mesh = EmptyMesh
    /\ strip = <<>>
    /\ ord \in {"asc", "desc"}
    /\ ret = [op |-> "init", fault |-> FALSE]
    /\ pre = [mesh |-> mesh, strip |-> <<>>]
    /\ nops = 0

ListSplitCall(l, indices, r) ==
    QueryCall([op |-> "list_split", l |-> l, indices |-> indices,
               lists |-> r.val, fault |-> r.fault])

\* list_split(l, indices), no call after one that raised
ListSplit ==
    /\ ~ret.fault
    /\ \E l \in Lists : \E indices \in SUBSET (0..(Len(l) - 1)) :
          ListSplitCall(l, indices, list_split(l, indices))

NextLists == ListSplit

SpecLists == InitLists /\ [][NextLists]_vars

(***************************************************************************)
(* Claims on the queries.                                                  *)
(***************************************************************************)
\* the places (k, i) of the consecutive pairs of a list of vertex lists
PairPlaces(ls) == UNION {{<<k, i>> : i \in 1..(Len(ls[k]) - 1)} : k \in 1..Len(ls)}

\* the places (skey, i) of the edges of a strip table
StripPlaces(t) == UNION {{<<k, i>> : i \in 1..Len(t[k])} : k \in DOMAIN t}

\* C1: after collect_strips() on an all-quad mesh every undirected edge of
\* the mesh is at exactly one place of the strip table, and every pair of the
\* table is an edge of the mesh.
C1_StripsPartition ==
    (ret.op = "collect_strips" /\ is_quadmesh(mesh)) =>
        /\ ~ret.fault
        /\ \A e \in EdgeSet(mesh) :
              Cardinality({p \in StripPlaces(strip) :
                  {strip[p[1]][p[2]][1], strip[p[1]][p[2]][2]} = e}) = 1
        /\ \A p \in StripPlaces(strip) :
              {strip[p[1]][p[2]][1], strip[p[1]][p[2]][2]} \in EdgeSet(mesh)

\* a strip table built on a mesh with closed strips and with open strips
C1_Witness ==
    /\ ret.op = "collect_strips"
    /\ mesh = Ring(2)
    /\ Cardinality(DOMAIN strip) = 5

\* C2: the consecutive pairs of the lists returned by polyedges() on a quad
\* mesh cover every undirected edge of the mesh exactly once.
C2_PolyedgesPartition ==
    (ret.op = "polyedges" /\ is_quadmesh(mesh)) =>
        /\ ~ret.fault
        /\ \A e \in EdgeSet(mesh) :
              Cardinality({p \in PairPlaces(ret.polyedges) :
                  {ret.polyedges[p[1]][p[2]], ret.polyedges[p[1]][p[2] + 1]} = e}) = 1

\* C3: is_vertex_singular(v) is degree(v) # 3 for a vertex on the boundary
\* and degree(v) # 4 for a vertex not on the boundary.
C3_SingularIffIrregular ==
    ret.op = "is_vertex_singular" =>
        LET v == ret.vkey
            degree == Cardinality({w \in mesh.vertex : {v, w} \in EdgeSet(mesh)})
            boundary == \E w \in mesh.vertex :
                            HasHalfedge(mesh, v, w) /\ ~HasFace(mesh, v, w)
        IN  ret.singular = (IF boundary THEN degree # 3 ELSE degree # 4)

\* an interior vertex reported singular, and a boundary vertex reported regular
C3_Witness ==
    /\ ret.op = "is_vertex_singular"
    /\ ret.singular
    /\ ~is_vertex_on_boundary(mesh, ret.vkey)
    /\ vertex_degree(mesh, ret.vkey) = 3

\* the corner vertices of the a x b grid
Corners(a, b) == {0, a, b * (a + 1), b * (a + 1) + a}

\* C4: on the a x b grid the singular vertices are the four corners and
\* collect_strips() builds a + b strips; on the single quad each of the 2
\* strips holds 2 opposite boundary edges.
C4_GridStrips ==
    \A a \in 1..MaxGrid, b \in 1..MaxGrid :
        mesh = Grid(a, b) =>
            /\ ret.op = "singularities" => ret.singularities = Corners(a, b)
            /\ ret.op = "is_vertex_singular" => (ret.singular <=> ret.vkey \in Corners(a, b))
            /\ ret.op = "collect_strips" =>
                  /\ Cardinality(DOMAIN strip) = a + b
                  /\ \A k \in DOMAIN strip : Len(strip[k]) \in {a + 1, b + 1}
                  /\ (a = 1 /\ b = 1) =>
                        \A k \in DOMAIN strip :
                            /\ Len(strip[k]) = 2
                            /\ {strip[k][1][1], strip[k][1][2]}
                                   \cap {strip[k][2][1], strip[k][2][2]} = {}
                            /\ \A i \in 1..2 :
                                  is_edge_on_boundary(mesh, strip[k][i][1], strip[k][i][2])

\* the strips of the 2 x 2 grid have been built
C4_Witness ==
    /\ ret.op = "collect_strips"
    /\ mesh = Grid(2, 2)
    /\ Cardinality(DOMAIN strip) = 4

\* C10: polyedge enters its loop at most number_of_vertices times and returns
\* at most number_of_vertices + 1 vertices, collect_strip takes at most
\* number_of_edges steps, and mesh_polylines_boundary ends without a fault.
C10_TraversalsBounded ==
    /\ ret.op = "polyedge" =>
          /\ ret.iters <= number_of_vertices(mesh)
          /\ Len(ret.polyedge) <= number_of_vertices(mesh) + 1
    /\ ret.op = "collect_strip" => ret.steps <= number_of_edges(mesh)
    /\ ret.op = "mesh_polylines_boundary" => ~ret.fault

(***************************************************************************)
(* Claims on the edit operations.                                          *)
(***************************************************************************)
EditOps == {"face_strip_collapse", "face_strip_subdivide", "face_strips_merge",
            "face_strip_insert"}

\* the call returned None without raising
Failed == ret.none /\ ~ret.fault

\* the call returned something else than None
Succeeded == ~ret.none /\ ~ret.fault

\* C5: a call of face_strips_merge, face_strip_collapse or
\* face_strip_subdivide that returns None leaves vertices, faces, halfedges
\* and the strip table as they were before the call.
C5_FailureLeavesUnchanged ==
    (ret.op \in {"face_strips_merge", "face_strip_collapse", "face_strip_subdivide"} /\ Failed) =>
        /\ mesh.vertex = pre.mesh.vertex
        /\ mesh.xyz = pre.mesh.xyz
        /\ mesh.face = pre.mesh.face
        /\ mesh.halfedge = pre.mesh.halfedge
        /\ strip = pre.strip

\* a merge refused for the singular vertex on its polyedge, with the strips
\* of the mesh in the table
C5_Witness ==
    /\ ret.op = "face_strips_merge"
    /\ Failed
    /\ pre.mesh = Tri3
    /\ is_vertex_singular(pre.mesh, ret.u)
    /\ ~is_edge_on_boundary(pre.mesh, ret.u, ret.v)
    /\ strip # <<>>

\* the faces on the edges of the group of (u, v)
TouchedFaces(m, u, v) ==
    {m.halfedge[e] : e \in {d \in Range(edges_to_collapse(m, u, v)) : HasHalfedge(m, d[1], d[2])}}
        \ {None}

\* C6: a successful face_strip_collapse(u, v) takes away as many faces as
\* there are on the edges of the group of (u, v), and what is left is a quad
\* mesh when that is not every face.
C6_CollapseFaceCount ==
    (ret.op = "face_strip_collapse" /\ Succeeded) =>
        /\ number_of_faces(mesh)
              = number_of_faces(pre.mesh) - Cardinality(TouchedFaces(pre.mesh, ret.u, ret.v))
        /\ TouchedFaces(pre.mesh, ret.u, ret.v) # DOMAIN pre.mesh.face =>
              /\ DOMAIN mesh.face # {}
              /\ is_quadmesh(mesh)

\* a strip of two faces collapsed out of the 2 x 2 grid
C6_Witness ==
    /\ ret.op = "face_strip_collapse"
    /\ Succeeded
    /\ pre.mesh = Grid(2, 2)
    /\ number_of_faces(mesh) = 2

\* the vertices some face refers to
Referenced(m) == UNION {Range(m.face[fkey]) : fkey \in DOMAIN m.face}

\* C7: after a successful face_strip_collapse the caller has the cleaned
\* mesh: the call returns a mesh and not a number, the two ends of every
\* collapsed edge are gone and one merged vertex per edge has come, and every
\* vertex is in some face.
C7_CollapseReturnsCleanMesh ==
    (ret.op = "face_strip_collapse" /\ Succeeded) =>
        /\ ret.val # 0
        /\ mesh.vertex \subseteq Referenced(mesh)
        /\ \A e \in Range(edges_to_collapse(pre.mesh, ret.u, ret.v)) :
              e[1] \notin mesh.vertex /\ e[2] \notin mesh.vertex

\* C8: from a quad mesh, after every successful edit every face of the mesh
\* has 4 vertices.
C8_EditsKeepQuads ==
    (ret.op \in EditOps /\ Succeeded /\ is_quadmesh(pre.mesh)) => is_quadmesh(mesh)

\* two successful edits one after the other, a face left
C8_Witness ==
    /\ nops = 2
    /\ ret.op = "face_strips_merge"
    /\ Succeeded
    /\ pre.mesh \notin EditLibrary
    /\ DOMAIN mesh.face # {}
    /\ is_quadmesh(mesh)

\* the polylines through the edge (u, v)
PolylinesOn(pls, u, v) == {pls[k] : k \in PolylinesThrough(pls, u, v)}

\* the call named in ret was made against a precondition
PreconditionViolated ==
    \/ ~is_quadmesh(pre.mesh)
    \/ ~HasHalfedge(pre.mesh, ret.u, ret.v)
    \/ /\ ret.op = "face_strips_merge"
       /\ \/ is_edge_on_boundary(pre.mesh, ret.u, ret.v)
          \/ \E pl \in PolylinesOn(quad_mesh_polylines_all(pre.mesh).val, ret.u, ret.v) :
                \E i \in 1..Len(pl) : is_vertex_singular(pre.mesh, pl[i])

\* C9: face_strips_merge, face_strip_collapse and face_strip_subdivide
\* called against a precondition return None and raise nothing.
C9_ViolationGivesFailure ==
    (ret.op \in {"face_strips_merge", "face_strip_collapse", "face_strip_subdivide"}
        /\ PreconditionViolated) => Failed

\* the polyedge face_strips_merge(u, v) works along on the mesh m
MergedPolyedge(m, u, v) ==
    quad_mesh_polylines_all(m).val[
        CHOOSE k \in PolylinesThrough(quad_mesh_polylines_all(m).val, u, v) :
            \A j \in PolylinesThrough(quad_mesh_polylines_all(m).val, u, v) : j <= k]

\* the undirected edges of a vertex cycle
CycleEdges(f) == {{f[i], f[(i % Len(f)) + 1]} : i \in 1..Len(f)}

\* the faces of m on the two sides of the edges of the polyedge pe
Straddling(m, pe) ==
    UNION {{m.halfedge[<<pe[i], pe[i + 1]>>], m.halfedge[<<pe[i + 1], pe[i]>>]} :
              i \in 1..(Len(pe) - 1)}

\* the new face nf of the edge (u, v) of the mesh m0: its first two vertices
\* are the corners off the edge of the face on (u, v), the last two those
\* of the face on (v, u)
MergedQuad(m0, nf, u, v) ==
    /\ Len(nf) = 4
    /\ {nf[1], nf[2]} = Range(m0.face[m0.halfedge[<<u, v>>]]) \ {u, v}
    /\ {nf[3], nf[4]} = Range(m0.face[m0.halfedge[<<v, u>>]]) \ {u, v}
    /\ Cardinality({nf[1], nf[2], nf[3], nf[4]}) = 4

\* what C11 says of a merge along pe that took m0 to m and returned fs
MergedAlong(m0, m, pe, fs) ==
    /\ Len(fs) = Len(pe) - 1
    /\ number_of_faces(m) = number_of_faces(m0) - (Len(pe) - 1)
    /\ Cardinality(Straddling(m0, pe)) = 2 * (Len(pe) - 1)
    /\ DOMAIN m0.face \ DOMAIN m.face = Straddling(m0, pe)
    /\ DOMAIN m.face \ DOMAIN m0.face = Range(fs)
    /\ \A i \in 1..Len(fs) : MergedQuad(m0, m.face[fs[i]], pe[i], pe[i + 1])
    /\ \A i \in 1..(Len(fs) - 1) :
          CycleEdges(m.face[fs[i]]) \cap CycleEdges(m.face[fs[i + 1]]) # {}
    /\ \A fkey \in DOMAIN m.face : Range(m.face[fkey]) \cap Range(pe) = {}

\* C11: a successful face_strips_merge along a polyedge of k edges takes
\* away the 2k faces on the two sides of these edges and adds k quads, the
\* quad of the edge (u, v) made of the two corners off the edge of the face
\* on (u, v) and the two of the face on (v, u); the face count drops by k,
\* new quads that follow each other share an edge, and no face left has a
\* vertex of the polyedge.
C11_MergeFusesFaces ==
    (ret.op = "face_strips_merge" /\ Succeeded) =>
        MergedAlong(pre.mesh, mesh, MergedPolyedge(pre.mesh, ret.u, ret.v), ret.faces)

\* the two strips of the 2 x 2 grid merged along the polyedge of two edges
\* between them
C11_Witness ==
    /\ ret.op = "face_strips_merge"
    /\ Succeeded
    /\ pre.mesh = Grid(2, 2)
    /\ Len(ret.faces) = 2
    /\ number_of_faces(mesh) = 2

\* the faces of m that m0 has not
AddedFaces(m0, m) == {m.face[fkey] : fkey \in DOMAIN m.face \ DOMAIN m0.face}

\* the quad between the duplicate pairs p and q, each (old, new)
StitchQuad(p, q) == <<p[2], p[1], q[1], q[2]>>

\* the quads C12 has face_strip_insert add for the duplicates dup
StitchQuads(dup, loop) ==
    {StitchQuad(dup[i], dup[i + 1]) : i \in 1..(Len(dup) - 1)}
        \cup (IF loop THEN {StitchQuad(dup[Len(dup)], dup[1])} ELSE {})

\* C12: face_strip_insert along a path whose unwelding gives the pairs
\* (old_i, new_i) adds the quad [new_i, old_i, old_(i+1), new_(i+1)] for
\* every two pairs that follow each other and, when the path is a loop, the
\* closing quad [new_(n-1), old_(n-1), old_0, new_0]; it adds as many
\* faces as the path has edges.
C12_InsertStitchesQuads ==
    (ret.op = "face_strip_insert" /\ Succeeded) =>
        /\ AddedFaces(pre.mesh, mesh)
              = StitchQuads(ret.duplicates, ret.vertex_path[1] = Last(ret.vertex_path))
        /\ Cardinality(DOMAIN mesh.face \ DOMAIN pre.mesh.face) = Len(ret.vertex_path) - 1

\* the neighbours of v other than u that are on the boundary
OtherBoundaryNbrs(m, u, v) ==
    {nbr \in m.vertex : HasHalfedge(m, v, nbr) /\ nbr # u /\ is_vertex_on_boundary(m, nbr)}

\* C13: on a quad mesh vertex_opposite_vertex(u, v) with v regular and on
\* the boundary returns None when u is not on the boundary; when u is on the boundary it
\* returns the other boundary neighbour of v, the only one there is, and
\* (v, w) is a boundary edge when (u, v) is one.
C13_OppositeOnBoundary ==
    (/\ ret.op = "vertex_opposite_vertex"
     /\ is_quadmesh(mesh)
     /\ is_vertex_on_boundary(mesh, ret.v)
     /\ ~is_vertex_singular(mesh, ret.v)) =>
        /\ ~ret.fault
        /\ ~is_vertex_on_boundary(mesh, ret.u) => ret.val = None
        /\ is_vertex_on_boundary(mesh, ret.u) =>
              /\ OtherBoundaryNbrs(mesh, ret.u, ret.v) = {ret.val}
              /\ is_edge_on_boundary(mesh, ret.u, ret.v)
                    => is_edge_on_boundary(mesh, ret.v, ret.val)

\* the pairs of opposite edges of the quads of m, edges as vertex sets
OppositePairs(m) ==
    UNION {{ {{m.face[fkey][1], m.face[fkey][2]}, {m.face[fkey][3], m.face[fkey][4]}},
             {{m.face[fkey][2], m.face[fkey][3]}, {m.face[fkey][4], m.face[fkey][1]}} } :
              fkey \in DOMAIN m.face}

RECURSIVE LinkedEdges(_, _)
\* the edges a chain of pairs of P leads to from the edges of S
LinkedEdges(P, S) ==
    IF UNION {p \in P : p \cap S # {}} \subseteq S THEN S
    ELSE LinkedEdges(P, S \cup UNION {p \in P : p \cap S # {}})

\* C14: on a quad mesh dual_edge_groups gives two edges the same group
\* exactly when a chain of opposite edges of quads links them; both
\* directions of an edge have the same group, every edge of the mesh has
\* one, and every group is in 1..max_group.
C14_GroupsAreOppositeClosure ==
    (ret.op = "dual_edge_groups" /\ is_quadmesh(mesh)) =>
        /\ ~ret.none
        /\ DOMAIN ret.groups = DOMAIN mesh.halfedge
        /\ \A e \in DOMAIN ret.groups :
              /\ ret.groups[e] = ret.groups[<<e[2], e[1]>>]
              /\ ret.groups[e] \in 1..ret.max_group
        /\ \A e, f \in DOMAIN ret.groups :
              ret.groups[e] = ret.groups[f]
                  <=> {f[1], f[2]} \in LinkedEdges(OppositePairs(mesh), {{e[1], e[2]}})

\* the groups of the row of three quads, where the middle quad, the last to
\* be looked at, joins the groups of the two quads at its sides
C14_Witness ==
    /\ ret.op = "dual_edge_groups"
    /\ mesh = Row3
    /\ ord = "asc"
    /\ ret.groups[<<0, 4>>] = ret.groups[<<3, 7>>]
    /\ ret.max_group = 5

\* the halfedges without face
FacelessHalfedges(m) == {e \in DOMAIN m.halfedge : m.halfedge[e] = None}

\* no vertex has two halfedges without face going out or coming in
ManifoldBoundary(m) ==
    \A e, f \in FacelessHalfedges(m) : (e[1] = f[1] \/ e[2] = f[2]) => e = f

\* b is a closed loop along halfedges without face that comes by no vertex twice
BoundaryLoop(m, b) ==
    /\ Len(b) >= 2
    /\ b[1] = Last(b)
    /\ \A i \in 1..(Len(b) - 1) : <<b[i], b[i + 1]>> \in FacelessHalfedges(m)
    /\ \A i, j \in 1..(Len(b) - 1) : b[i] = b[j] => i = j

\* C15: on a mesh that is manifold along its boundary mesh_polylines_boundary
\* returns closed loops, one per boundary component: every step of a loop is
\* a halfedge without face and every boundary vertex is on exactly one loop.
C15_BoundaryLoops ==
    (ret.op = "mesh_polylines_boundary" /\ ManifoldBoundary(mesh)) =>
        /\ ~ret.fault
        /\ \A k \in 1..Len(ret.polylines) : BoundaryLoop(mesh, ret.polylines[k])
        /\ \A v \in vertices_on_boundary(mesh) :
              Cardinality({k \in 1..Len(ret.polylines) : v \in Range(ret.polylines[k])}) = 1

\* the two boundary loops of the ring
C15_Witness ==
    /\ ret.op = "mesh_polylines_boundary"
    /\ mesh = Ring(2)
    /\ Len(ret.polylines) = 2
    /\ Range(ret.polylines[1]) \cap Range(ret.polylines[2]) = {}

\* the places (k, i) where the polylines pls run along the edge {a, b}
EdgePlaces(pls, a, b) ==
    {p \in (1..Len(pls)) \X (1..number_of_edges(mesh)) :
        /\ p[2] < Len(pls[p[1]])
        /\ {pls[p[1]][p[2]], pls[p[1]][p[2] + 1]} = {a, b}}

\* the polyline runs along an edge of the boundary
AlongBoundary(m, pl) ==
    \E i \in 1..(Len(pl) - 1) : is_edge_on_boundary(m, pl[i], pl[i + 1])

\* C16: on a quad mesh quad_mesh_polylines_all returns polylines that take
\* every edge of the mesh exactly once; a polyline from a boundary edge has
\* vertices of degree 3 only strictly inside it, a polyline from an interior
\* edge has vertices of degree 4 off the boundary only strictly inside it.
C16_PolylinesCoverEdges ==
    (ret.op = "quad_mesh_polylines_all" /\ is_quadmesh(mesh)) =>
        /\ ~ret.fault
        /\ \A k \in 1..Len(ret.polylines) : \A i \in 1..(Len(ret.polylines[k]) - 1) :
              HasHalfedge(mesh, ret.polylines[k][i], ret.polylines[k][i + 1])
        /\ \A e \in DOMAIN mesh.halfedge :
              Cardinality(EdgePlaces(ret.polylines, e[1], e[2])) = 1
        /\ \A k \in 1..Len(ret.polylines) : \A i \in 2..(Len(ret.polylines[k]) - 1) :
              IF AlongBoundary(mesh, ret.polylines[k])
              THEN vertex_degree(mesh, ret.polylines[k][i]) = 3
              ELSE /\ vertex_degree(mesh, ret.polylines[k][i]) = 4
                   /\ ~is_vertex_on_boundary(mesh, ret.polylines[k][i])

\* the polylines of the 2 x 2 grid: the boundary in 4 polylines, the two
\* polylines through the vertex in the middle
C16_Witness ==
    /\ ret.op = "quad_mesh_polylines_all"
    /\ mesh = Grid(2, 2)
    /\ Len(ret.polylines) = 6
    /\ \E k \in 1..Len(ret.polylines) :
          /\ Len(ret.polylines[k]) = 3
          /\ ret.polylines[k][2] = 4

(***************************************************************************)
(* Claims on the export of the mesh.                                       *)
(***************************************************************************)
\* the faces next to fkey: Mesh.face_neighbors reads halfedge[v][u] for each
\* halfedge (u, v) of the face
face_neighbors(m, fkey) ==
    {m.halfedge[<<e[2], e[1]>>] : e \in {h \in Range(face_halfedges(m, fkey)) :
        HasFace(m, h[2], h[1])}}

\* the faces with an edge of fkey in their cycle, in either direction
FacesAcross(m, fkey) ==
    {g \in DOMAIN m.face \ {fkey} : \E h \in Range(face_halfedges(m, fkey)) :
        \E k \in Range(face_halfedges(m, g)) : {h[1], h[2]} = {k[1], k[2]}}

\* the key in the rebuilt mesh of the face fkey of m
FaceIndex(m, fkey) == IndexOf(faces(m), fkey) - 1

\* the renaming of the vertex keys: to each key its place, from 0, in the
\* order of vertices()
VertexPlace(m) == [key \in m.vertex |-> IndexOf(vertices(m), key) - 1]

\* m2 is m with the vertex keys renamed by vi and the face keys by FaceIndex
Isomorphic(m, m2, vi) ==
    /\ m2.vertex = 0..(number_of_vertices(m) - 1)
    /\ {vi[key] : key \in m.vertex} = m2.vertex
    /\ DOMAIN m2.face = 0..(number_of_faces(m) - 1)
    /\ \A fkey \in DOMAIN m.face :
          /\ m2.face[FaceIndex(m, fkey)] =
                [i \in 1..Len(m.face[fkey]) |-> vi[m.face[fkey][i]]]
          /\ FacesAcross(m2, FaceIndex(m, fkey)) =
                {FaceIndex(m, g) : g \in FacesAcross(m, fkey)}
          /\ HalfedgesMatch(m) =>
                face_neighbors(m2, FaceIndex(m, fkey)) =
                    {FaceIndex(m, g) : g \in face_neighbors(m, fkey)}

\* C17: the mesh built by from_vertices_and_faces from the lists of
\* to_vertices_and_faces(keep_keys=False) is the mesh with its vertex keys
\* renamed, in the order of vertices(), to 0..n-1: each face keeps its cycle
\* of vertices and the faces it shares an edge with, and its face_neighbors
\* where the halfedges of the mesh are those of its faces, whether the keys
\* were contiguous or not.
C17_ExportRoundTrip ==
    ret.op = "to_vertices_and_faces" =>
        /\ ~ret.fault
        /\ Isomorphic(mesh, ret.rebuilt, VertexPlace(mesh))

\* a round trip of a mesh with vertex keys that are not contiguous
C17_Witness ==
    /\ ret.op = "to_vertices_and_faces"
    /\ ~ret.fault
    /\ number_of_faces(mesh) > 0
    /\ mesh.vertex # 0..(number_of_vertices(mesh) - 1)
    /\ HalfedgesMatch(mesh)
    /\ \E fkey \in DOMAIN mesh.face : face_neighbors(mesh, fkey) # {}
    /\ Isomorphic(mesh, ret.rebuilt, VertexPlace(mesh))

(***************************************************************************)
(* Claims on the strip table.                                              *)
(***************************************************************************)
\* C18: collect_strips() returns the number of strips it stored: the value
\* it returns is number_of_strips() after the call.
C18_CollectStripsCount ==
    (ret.op = "collect_strips" /\ ~ret.fault) => ret.val = number_of_strips(strip)

(***************************************************************************)
(* Claims on the vertices and the halfedges after an edit.                 *)
(***************************************************************************)
\* C19: the vertex that face_strip_collapse adds for a collapsed edge (u, v)
\* is at the endpoint off the boundary when exactly one of u, v is on the
\* boundary of the mesh as it was before the call, and at the midpoint of
\* the edge otherwise.
C19_MergedVertexPosition ==
    (ret.op = "face_strip_collapse" /\ ~ret.fault /\ ret.val = 0) =>
        \A i \in 1..Len(edges_to_collapse(pre.mesh, ret.u, ret.v)) :
            /\ pre.mesh.max_int_key + i \in mesh.vertex
            /\ mesh.xyz[pre.mesh.max_int_key + i] =
                  MergedXYZ(pre.mesh,
                            edges_to_collapse(pre.mesh, ret.u, ret.v)[i][1],
                            edges_to_collapse(pre.mesh, ret.u, ret.v)[i][2],
                            vertices_on_boundary(pre.mesh))

\* the halfedge (u, v) has a face that is a face of the mesh with (u, v) in
\* its cycle
LiveHalfedge(m, u, v) ==
    /\ HasFace(m, u, v)
    /\ m.halfedge[<<u, v>>] \in DOMAIN m.face
    /\ <<u, v>> \in Range(face_halfedges(m, m.halfedge[<<u, v>>]))

\* every entry of the halfedge table has its opposite entry, one of the two
\* at least has a face, and every face of an entry is live
ConsistentHalfedges(m) ==
    \A p \in DOMAIN m.halfedge :
        /\ HasHalfedge(m, p[2], p[1])
        /\ HasFace(m, p[1], p[2]) \/ HasFace(m, p[2], p[1])
        /\ HasFace(m, p[1], p[2]) => LiveHalfedge(m, p[1], p[2])

\* C20: after any sequence of edit calls that did not raise, the halfedge
\* table is consistent: each pair of vertices with an entry has a face on
\* one side at least, and each face stored on a halfedge is a face of the
\* mesh whose cycle of vertices has that halfedge.
C20_HalfedgesConsistent ==
    ~ret.fault => ConsistentHalfedges(mesh)

\* a second edit in a row that rewrote faces, here a merge after a first
\* edit that changed the mesh
C20_Witness ==
    /\ ret.op = "face_strips_merge"
    /\ ~ret.fault
    /\ ~ret.none
    /\ nops = 2
    /\ pre.mesh \notin EditLibrary
    /\ number_of_faces(mesh) < number_of_faces(pre.mesh)
    /\ \E p \in DOMAIN mesh.halfedge : ~HasFace(pre.mesh, p[1], p[2]) /\ HasFace(mesh, p[1], p[2])
    /\ ConsistentHalfedges(mesh)

(***************************************************************************)
(* Claims on the walks along polyedges and strips.                         *)
(***************************************************************************)
\* the walk of polyedge ended on the guard of its loop
PolyedgeGuarded(m, pe) == ~(Len(pe) <= number_of_vertices(m))

\* C21: polyedge(u0, v0) returns a list of which every vertex but the first
\* and the last is not singular and every consecutive pair is an edge of the
\* mesh; unless the list is closed or the guard on the length stopped the
\* walk, vertex_opposite_vertex is None at both ends.
C21_PolyedgeWalk ==
    (ret.op = "polyedge" /\ ~ret.fault) =>
        /\ \A i \in 2..(Len(ret.polyedge) - 1) : ~is_vertex_singular(mesh, ret.polyedge[i])
        /\ \A i \in 1..(Len(ret.polyedge) - 1) :
              HasHalfedge(mesh, ret.polyedge[i], ret.polyedge[i + 1])
        /\ (ret.polyedge[1] # Last(ret.polyedge) /\ ~PolyedgeGuarded(mesh, ret.polyedge)) =>
              /\ vertex_opposite_vertex(mesh, ret.polyedge[Len(ret.polyedge) - 1],
                                        Last(ret.polyedge)) = None
              /\ vertex_opposite_vertex(mesh, ret.polyedge[2], ret.polyedge[1]) = None

\* a polyedge through the middle of the 2 x 2 grid, traced from its second
\* edge: the walk turned once
C21_Witness ==
    /\ ret.op = "polyedge"
    /\ ~ret.fault
    /\ mesh = Grid(2, 2)
    /\ Len(ret.polyedge) = 3
    /\ ret.polyedge[2] = 4
    /\ ret.u = 4
    /\ ret.polyedge[1] # Last(ret.polyedge)

(***************************************************************************)
(* Claims on the edge groups of pseudo quad meshes.                        *)
(***************************************************************************)
\* the pairs of opposite edges of which both are edges between two vertices
RealOppositePairs(m) == {p \in OppositePairs(m) : \A e \in p : Cardinality(e) = 2}

\* C22: on a mesh with faces [a, b, c, c] dual_edge_groups records no pair
\* (c, c) as an edge of a group, and two edges have the same group only when
\* a chain of opposite edges of faces, each between two vertices, links them:
\* the repeated vertex of two faces does not join the groups of their edges.
C22_DegenerateFacesIndependent ==
    (ret.op = "dual_edge_groups" /\ ~ret.none) =>
        /\ \A e \in DOMAIN ret.groups : e[1] # e[2]
        /\ \A e, f \in DOMAIN ret.groups :
              (e[1] # e[2] /\ f[1] # f[2] /\ ret.groups[e] = ret.groups[f]) =>
                  {f[1], f[2]} \in LinkedEdges(RealOppositePairs(mesh), {{e[1], e[2]}})

(***************************************************************************)
(* Claims on the strips.                                                   *)
(***************************************************************************)
\* the edges of a list of vertex pairs, as sets of endpoints
PairSets(es) == {{es[i][1], es[i][2]} : i \in 1..Len(es)}

\* the walk from the last edge of es comes back to the first edge of es
BackAtSeed(m, es) ==
    /\ HasFace(m, Last(es)[1], Last(es)[2])
    /\ <<face_opposite_edge(m, Last(es)[1], Last(es)[2])[2],
         face_opposite_edge(m, Last(es)[1], Last(es)[2])[1]>> = es[1]

\* C23: on a quad mesh collect_strip(u0, v0) returns a list of edges in which
\* every two consecutive edges are the two opposite edges of one quad face
\* and no edge is twice; the strip is closed (its first edge is not on the
\* boundary) exactly when the walk came back to its first edge; a strip that
\* is not closed starts and ends with an edge on the boundary and has the
\* same edges from whichever of its edges it is collected.
C23_StripWalk ==
    (ret.op = "collect_strip" /\ is_quadmesh(mesh)) =>
        /\ ~ret.fault
        /\ \A i \in 1..(Len(ret.edges) - 1) :
              {{ret.edges[i][1], ret.edges[i][2]}, {ret.edges[i + 1][1], ret.edges[i + 1][2]}}
                  \in OppositePairs(mesh)
        /\ Cardinality(PairSets(ret.edges)) = Len(ret.edges)
        /\ ~is_edge_on_boundary(mesh, ret.edges[1][1], ret.edges[1][2])
              <=> BackAtSeed(mesh, ret.edges)
        /\ is_edge_on_boundary(mesh, ret.edges[1][1], ret.edges[1][2]) =>
              /\ is_edge_on_boundary(mesh, Last(ret.edges)[1], Last(ret.edges)[2])
              /\ \A i \in 1..Len(ret.edges) :
                    PairSets(collect_strip(mesh, ret.edges[i][1], ret.edges[i][2]).val)
                        = PairSets(ret.edges)

\* a strip of the 2 x 2 grid collected from its edge in the middle
C23_Witness ==
    /\ ret.op = "collect_strip"
    /\ ~ret.fault
    /\ mesh = Grid(2, 2)
    /\ Len(ret.edges) = 3
    /\ {ret.edges[2][1], ret.edges[2][2]} = {ret.u, ret.v}
    /\ is_edge_on_boundary(mesh, ret.edges[1][1], ret.edges[1][2])

\* the strip table is the one collect_strips() builds on the mesh as it is
StripsCollected == strip # <<>> /\ strip = collect_strips(mesh).table

\* the strips with both edges (a, b) and (c, d) in their list
StripsAcross(table, a, b, c, d) ==
    {skey \in DOMAIN table : {{a, b}, {c, d}} \subseteq PairSets(table[skey])}

\* how many times x is in the list s
CountIn(s, x) == Cardinality({i \in 1..Len(s) : s[i] = x})

RECURSIVE SumOver(_, _)
\* the sum of n[k] over the keys k of S
SumOver(n, S) ==
    IF S = {} THEN 0
    ELSE LET k == CHOOSE x \in S : TRUE IN n[k] + SumOver(n, S \ {k})

\* C24: with the strips just collected on a quad mesh, face_strips(f) is the
\* strip with the first and third edge of f, then the strip with its second
\* and fourth edge, f is in strip_faces of both, and over all strips
\* strip_faces lists every face exactly twice.
C24_FaceStrips ==
    (is_quadmesh(mesh) /\ StripsCollected) =>
        /\ ret.op = "face_strips" =>
              LET f == mesh.face[ret.fkey]
              IN  /\ Len(ret.strips) = 2
                  /\ StripsAcross(strip, f[1], f[2], f[3], f[4]) = {ret.strips[1]}
                  /\ StripsAcross(strip, f[2], f[3], f[4], f[1]) = {ret.strips[2]}
                  /\ \A i \in 1..2 :
                        /\ ~strip_faces(mesh, strip, ret.strips[i]).fault
                        /\ ret.fkey \in Range(strip_faces(mesh, strip, ret.strips[i]).val)
        /\ ret.op = "strip_faces" =>
              /\ ~ret.fault
              /\ \A fkey \in DOMAIN mesh.face :
                    SumOver([skey \in DOMAIN strip |->
                                CountIn(strip_faces(mesh, strip, skey).val, fkey)],
                            DOMAIN strip) = 2

\* the two strips of a face of the 2 x 2 grid
C24_Witness ==
    /\ ret.op = "face_strips"
    /\ mesh = Grid(2, 2)
    /\ StripsCollected
    /\ Len(ret.strips) = 2
    /\ ret.strips[1] # ret.strips[2]
    /\ ret.strips[1] # None
    /\ ret.strips[2] # None

(***************************************************************************)
(* Claims on list_split and on the polyedges split at their crossings.     *)
(***************************************************************************)
RECURSIVE Joined(_)
\* the lists of ls put end to start, the item they share taken once
Joined(ls) ==
    IF Len(ls) = 1 THEN ls[1] ELSE ls[1] \o Tail(Joined(Tail(ls)))

\* the closed list l gone around from its place k (from 1)
Rotated(l, k) ==
    [i \in 1..Len(l) |-> l[((k - 1 + i - 1) % (Len(l) - 1)) + 1]]

\* the lists ls reproduce l: put end to start they are l, or for a closed l
\* the loop l gone around from one of its places
Reproduces(ls, l) ==
    \/ Joined(ls) = l
    \/ /\ l[1] = Last(l)
       /\ Len(l) > 1
       /\ \E k \in 1..(Len(l) - 1) : Joined(ls) = Rotated(l, k)

\* C26: list_split(l, indices) returns for a list that is not empty and
\* indices of the list at least one sublist; each sublist ends with the item
\* the next one starts with and together they reproduce l; for a closed list
\* of which neither end is an index to split the sublist over the ends is
\* one, and a closed list without an index to split comes back whole, without
\* a fault.
C26_ListSplit ==
    ret.op = "list_split" =>
        /\ ~ret.fault
        /\ Len(ret.lists) >= 1
        /\ \A j \in 1..(Len(ret.lists) - 1) : Last(ret.lists[j]) = ret.lists[j + 1][1]
        /\ Reproduces(ret.lists, ret.l)
        /\ (ret.l[1] = Last(ret.l) /\ ret.indices \cap {0, Len(ret.l) - 1} = {}
            /\ ret.indices # {}) =>
              /\ Len(ret.lists) = Cardinality(ret.indices)
              /\ ret.lists[1][1] = Last(Last(ret.lists))
        /\ (ret.l[1] = Last(ret.l) /\ ret.indices = {}) => ret.lists = <<ret.l>>

\* the edges along the lists of vertices ls, as sets of endpoints
EdgesAlong(ls) ==
    UNION {{{ls[k][i], ls[k][i + 1]} : i \in 1..(Len(ls[k]) - 1)} : k \in 1..Len(ls)}

\* C25: the polyedges that singularity_polyedges() returns on a quad mesh
\* overlap at their ends only: a vertex strictly inside one of them is on no
\* other of them; together they run along the edges of the polyedges
\* retained, those with a singularity at an end or along the boundary, and
\* along no other edge.
C25_SplitPolyedgesDisjoint ==
    (ret.op = "singularity_polyedges" /\ is_quadmesh(mesh) /\ ~ret.fault) =>
        /\ \A j, k \in 1..Len(ret.polyedges) :
              j # k => \A i \in 2..(Len(ret.polyedges[j]) - 1) :
                          ret.polyedges[j][i] \notin Range(ret.polyedges[k])
        /\ EdgesAlong(ret.polyedges) = EdgesAlong(ret.kept)
        /\ Cardinality(PairPlaces(ret.polyedges)) = Cardinality(PairPlaces(ret.kept))
        /\ \A k \in 1..Len(ret.kept) : IsRetained(mesh, ret.kept[k])

(***************************************************************************)
(* Claims on the insertion of a vertex on an edge.                         *)
(***************************************************************************)
\* the faces on the two sides of the edge (u, v)
EdgeFaces(m, u, v) == {m.halfedge[<<u, v>>], m.halfedge[<<v, u>>]} \ {None}

\* in the cycle f the vertex w is next to u on one side and to v on the other
Between(f, w, u, v) ==
    \E i \in 1..Len(f) :
        /\ f[i] = w
        /\ {f[((i - 2 + Len(f)) % Len(f)) + 1], f[(i % Len(f)) + 1]} = {u, v}

\* the mesh is pre.mesh with the vertex w put on the edge (u, v): the faces
\* of the edge have their key and their cycle with w between u and v, the
\* other faces are as they were
InsertedOnEdge(m0, m, u, v, w) ==
    /\ DOMAIN m.face = DOMAIN m0.face
    /\ \A fkey \in DOMAIN m0.face :
          IF fkey \in EdgeFaces(m0, u, v)
          THEN /\ Len(m.face[fkey]) = Len(m0.face[fkey]) + 1
               /\ SeqFilterNot(m.face[fkey], {w}) = m0.face[fkey]
               /\ Between(m.face[fkey], w, u, v)
          ELSE m.face[fkey] = m0.face[fkey]

\* C27: mesh_insert_vertex_on_edge(mesh, u, v) on an edge, without a key,
\* adds a vertex at the midpoint of (u, v) and puts the key of that vertex
\* between u and v in every face of the edge; with a key it puts that key
\* there; each face of the edge keeps its key and has one vertex more, and
\* the other faces are unchanged.
C27_InsertVertexOnEdge ==
    ret.op = "mesh_insert_vertex_on_edge" =>
        /\ ~ret.fault
        /\ ret.vkey # None => InsertedOnEdge(pre.mesh, mesh, ret.u, ret.v, ret.vkey)
        /\ ret.vkey = None =>
              /\ mesh.vertex = pre.mesh.vertex \cup {pre.mesh.max_int_key + 1}
              /\ mesh.xyz[pre.mesh.max_int_key + 1] = edge_midpoint(pre.mesh, ret.u, ret.v)
              /\ InsertedOnEdge(pre.mesh, mesh, ret.u, ret.v, pre.mesh.max_int_key + 1)

(***************************************************************************)
(* Claims on the strip table.                                              *)
(***************************************************************************)
\* the calls that write the strip table
TableWriters == {"collect_strips", "substitute_vertex_in_strips", "delete_face_in_strips"}

\* a step that changes the strip table is a call of one of the three writers
TableFrame == strip' # strip => ret'.op \in TableWriters

\* after collect_strips() the table is the one of the mesh as it is now: its
\* keys are 0..n, it names no edge the mesh has not, and it is the table a
\* mesh that never had one gets
TableOfMesh ==
    (ret.op = "collect_strips" /\ ~ret.fault) =>
        /\ DOMAIN strip = 0..ret.val
        /\ StaleEdges(mesh, strip) = {}
        /\ strip = collect_strips(mesh).table

\* C28: the strip table is changed only by collect_strips,
\* substitute_vertex_in_strips and delete_face_in_strips; the edit operations
\* and the direct mutations of the mesh leave it as it is; collect_strips()
\* after any mutations discards the table there was and gives the table of
\* the current mesh.
C28_StripTableFrame == [][TableFrame]_vars /\ []TableOfMesh

\* collect_strips() on a mesh that was mutated, the table there was naming
\* edges the mesh has no more
C28_Witness ==
    /\ ret.op = "collect_strips"
    /\ ~ret.fault
    /\ nops > 0
    /\ mesh \notin TableLibrary
    /\ StaleEdges(mesh, pre.strip) # {}
    /\ strip # pre.strip

(***************************************************************************)
(* Claims on the two groupings of the edges.                               *)
(***************************************************************************)
\* the undirected edges of the halfedges given
Undirected(es) == {{e[1], e[2]} : e \in es}

\* the group ids in use, and the classes of edges that share one
GroupsInUse(groups) == {groups[e] : e \in DOMAIN groups}

GroupClasses(groups) ==
    {Undirected({e \in DOMAIN groups : groups[e] = g}) : g \in GroupsInUse(groups)}

\* the edge sets of the strips of a table
StripClasses(table) == {Undirected(Range(table[skey])) : skey \in DOMAIN table}

\* C29: on a quad mesh without degenerate faces the classes of edges that
\* share a group id in dual_edge_groups(mesh) are the edge sets of the
\* strips of collect_strips(), and as many group ids are in use as there are
\* strips.
C29_GroupsAreStrips ==
    (ret.op = "dual_edge_groups" /\ ~ret.none) =>
        /\ ~collect_strips(mesh).fault
        /\ GroupClasses(ret.groups) = StripClasses(collect_strips(mesh).table)
        /\ Cardinality(GroupsInUse(ret.groups)) = number_of_strips(collect_strips(mesh).table)

\* the groups of a mesh of three strips or more, one of at least three
\* edges, where a group id was given up when two groups were joined
C29_Witness ==
    /\ ret.op = "dual_edge_groups"
    /\ ~ret.none
    /\ number_of_strips(collect_strips(mesh).table) >= 3
    /\ \E c \in GroupClasses(ret.groups) : Cardinality(c) >= 3
    /\ Cardinality(GroupsInUse(ret.groups)) < ret.max_group

(***************************************************************************)
(* Claims on the two decompositions of the edges into lines.               *)
(***************************************************************************)
\* the edge sets of the lists of vertices ls, one for each list
EdgeSetsOf(ls) == {EdgesAlong(<<ls[k]>>) : k \in 1..Len(ls)}

\* C30: on a quad mesh polyedges() and quad_mesh_polylines_all(mesh,
\* dual=False) decompose the edges in the same way: the edge sets of the
\* polyedges are the edge sets of the polylines, on meshes one face wide,
\* where every vertex is on the boundary, as well.
C30_PolyedgesArePolylines ==
    (ret.op = "polyedges" /\ is_quadmesh(mesh)) =>
        /\ ~ret.fault
        /\ ~quad_mesh_polylines_all(mesh).fault
        /\ EdgeSetsOf(ret.polyedges) = EdgeSetsOf(quad_mesh_polylines_all(mesh).val)

====
